---- MODULE Spec2Model ----
(***************************************************************************)
(* A model of the Atlas toolchain: the Atlas8 instruction encoder and      *)
(* decoder (atlas-isa), the parser and the assembler back-end              *)
(* (atlas-assembler) and the static linker (atlas-linker).                 *)
(*                                                                         *)
(* Source text is modelled after lexing, as a sequence of logical lines;   *)
(* each line is the group of tokens the parser consumes for one directive, *)
(* one label definition or one mnemonic.  Names are strings, bytes are     *)
(* naturals below 256 and instruction words naturals below 65536.          *)
(***************************************************************************)
EXTENDS Integers, Sequences, FiniteSets, TLC

(***************************************************************************)
(* Fixed-width arithmetic                                                  *)
(***************************************************************************)

\* i32 -> u16 and i32 -> u8 casts (`as u16`, `as u8`): two's-complement wrap
AsU16(v) == v % 65536

AsU8(v) == v % 256

RECURSIVE BitOr(_, _)
\* the `|` operator on unsigned integers
BitOr(a, b) ==
  IF a = 0 THEN b
  ELSE IF b = 0 THEN a
  ELSE (IF a % 2 = 1 \/ b % 2 = 1 THEN 1 ELSE 0) + 2 * BitOr(a \div 2, b \div 2)

RECURSIVE BitAnd(_, _)
\* the `&` operator on unsigned integers
BitAnd(a, b) ==
  IF a = 0 \/ b = 0 THEN 0
  ELSE (IF a % 2 = 1 /\ b % 2 = 1 THEN 1 ELSE 0) + 2 * BitAnd(a \div 2, b \div 2)

\* `x << n` on a u16: bits shifted past bit 15 are lost
Shl16(x, n) == (x * (2 ^ n)) % 65536

\* `x >> n` on an unsigned integer
Shr(x, n) == x \div (2 ^ n)

(***************************************************************************)
(* Opcode numbering (the `as u16` value of each enum variant)              *)
(***************************************************************************)

ADD == 0
CMP == 12
TST == 13
LDI == 0
ADDI == 1
SUBI == 2
LD == 0
ST == 1
EQ == 1
PUSH == 0
POP == 1
SUBSP_IMM == 2
SUBSP_REG == 3
ADDSP_IMM == 4
ADDSP_REG == 5
POKE == 0
PEEK == 1
SYSC == 0
HALT == 2

(***************************************************************************)
(* Operands and instructions                                               *)
(***************************************************************************)

Immediate(v) == [t |-> "Immediate", v |-> v]

Label(name) == [t |-> "Label", name |-> name]

Offset8(v) == [t |-> "Offset8", v |-> v]

SR(r) == [t |-> "SR", v |-> r]

XNone == [t |-> "None"]

XImmediate(v) == [t |-> "Immediate", v |-> v]

XRegister(r) == [t |-> "Register", v |-> r]

XRegisters(s, d) == [t |-> "Registers", s |-> s, d |-> d]

InstrA(op, dest, source, line) ==
  [fmt |-> "A", op |-> op, dest |-> dest, source |-> source, line |-> line]

InstrI(op, dest, immediate, line) ==
  [fmt |-> "I", op |-> op, dest |-> dest, immediate |-> immediate, line |-> line]

InstrM(op, dest, base, offset, line) ==
  [fmt |-> "M", op |-> op, dest |-> dest, base |-> base, offset |-> offset, line |-> line]

InstrBI(absolute, cond, operand, line) ==
  [fmt |-> "BI", absolute |-> absolute, cond |-> cond, operand |-> operand, line |-> line]

InstrBR(absolute, cond, high, low, line) ==
  [fmt |-> "BR", absolute |-> absolute, cond |-> cond,
   source |-> [high |-> high, low |-> low], line |-> line]

InstrS(op, operand, line) ==
  [fmt |-> "S", op |-> op, operand |-> operand, line |-> line]

InstrP(op, register, offset, line) ==
  [fmt |-> "P", op |-> op, register |-> register, offset |-> offset, line |-> line]

InstrX(op, operand, line) ==
  [fmt |-> "X", op |-> op, operand |-> operand, line |-> line]

Ok(v) == [ok |-> TRUE, v |-> v]

Err(kind) == [ok |-> FALSE, err |-> kind]

BoolBit(b) == IF b THEN 1 ELSE 0

(***************************************************************************)
(* ParsedInstruction::encode                                               *)
(***************************************************************************)

EncodeA(x) ==
  Ok(BitOr(BitOr(Shl16(x.dest, 8), Shl16(x.source, 4)), x.op))

EncodeI(x) ==
  IF x.immediate.t = "Label" THEN Err("UnresolvedLabel")
  ELSE IF x.immediate.v > 255 THEN Err("ImmediateOutOfRange")
  ELSE Ok(BitOr(BitOr(Shl16(1 + x.op, 12), Shl16(x.dest, 8)), x.immediate.v))

EncodeM(x) ==
  Ok(BitOr(BitOr(BitOr(Shl16(6 + x.op, 12), Shl16(x.dest, 8)), Shl16(x.base, 4)),
           BitAnd(x.offset.v, 15)))

EncodeBI(x) ==
  IF x.operand.t = "Label" THEN Err("UnresolvedLabel")
  ELSE IF x.operand.v > 255 THEN Err("ImmediateOutOfRange")
  ELSE Ok(BitOr(BitOr(BitOr(Shl16(8, 12), Shl16(BoolBit(x.absolute), 11)),
                      Shl16(x.cond, 8)), x.operand.v))

EncodeBR(x) ==
  Ok(BitOr(BitOr(BitOr(BitOr(Shl16(9, 12), Shl16(BoolBit(x.absolute), 11)),
                       Shl16(x.cond, 8)), Shl16(x.source.low, 4)), x.source.high))

\* an S arm that keeps only the low nibble of the operand
EncodeSNibble(x) ==
  Ok(BitOr(BitOr(Shl16(10, 12), Shl16(x.op, 8)), BitAnd(x.operand, 15)))

EncodeS(x) ==
  Ok(BitOr(BitOr(Shl16(10, 12), Shl16(x.op, 8)), x.operand))

\* the P arm without the range check of the immediate
EncodePUnchecked(x) ==
  IF x.offset.t = "Label" THEN Err("UnresolvedLabel")
  ELSE Ok(BitOr(BitOr(Shl16(IF x.op = PEEK THEN 11 ELSE 12, 12), Shl16(x.register, 8)),
                BitAnd(x.offset.v, 255)))

EncodeP(x) ==
  IF x.offset.t = "Label" THEN Err("UnresolvedLabel")
  ELSE IF x.offset.v > 255 THEN Err("ImmediateOutOfRange")
  ELSE Ok(BitOr(BitOr(Shl16(IF x.op = PEEK THEN 11 ELSE 12, 12), Shl16(x.register, 8)),
                x.offset.v))

XOperandBits(o) ==
  CASE o.t = "Registers" -> BitOr(Shl16(o.s, 4), o.d)
    [] o.t = "Immediate" -> o.v
    [] o.t = "Register" -> o.v
    [] o.t = "None" -> 0

EncodeX(x) ==
  Ok(BitOr(BitOr(Shl16(13, 12), Shl16(x.op, 8)), XOperandBits(x.operand)))

encode(x) ==
  CASE x.fmt = "A" -> EncodeA(x)
    [] x.fmt = "I" -> EncodeI(x)
    [] x.fmt = "M" -> EncodeM(x)
    [] x.fmt = "BI" -> EncodeBI(x)
    [] x.fmt = "BR" -> EncodeBR(x)
    [] x.fmt = "S" -> EncodeS(x)
    [] x.fmt = "P" -> EncodeP(x)
    [] x.fmt = "X" -> EncodeX(x)

(***************************************************************************)
(* ParsedInstruction::decode                                               *)
(***************************************************************************)

Field(w, shift, mask) == BitAnd(Shr(w, shift), mask)

DecodeXOperand(op, operand_val) ==
  IF op = SYSC THEN XImmediate(operand_val)
  ELSE IF operand_val = 0 THEN XNone
  ELSE XRegisters(BitAnd(Shr(operand_val, 4), 15), BitAnd(operand_val, 15))

decode(w) ==
  LET opcode == Field(w, 12, 15) IN
  CASE opcode = 0 ->
         Ok(InstrA(Field(w, 0, 15), Field(w, 8, 15), Field(w, 4, 15), 0))
    [] opcode \in 1..5 ->
         Ok(InstrI(opcode - 1, Field(w, 8, 15), Immediate(Field(w, 0, 255)), 0))
    [] opcode \in 6..7 ->
         Ok(InstrM(opcode - 6, Field(w, 8, 15), Field(w, 4, 15),
                   Offset8(Field(w, 0, 15)), 0))
    [] opcode = 8 ->
         Ok(InstrBI(Field(w, 11, 1) # 0, Field(w, 8, 7), Immediate(Field(w, 0, 255)), 0))
    [] opcode = 9 ->
         Ok(InstrBR(Field(w, 11, 1) # 0, Field(w, 8, 7), Field(w, 0, 15),
                    Field(w, 4, 15), 0))
    [] opcode = 10 ->
         IF Field(w, 8, 15) \in 0..5
         THEN Ok(InstrS(Field(w, 8, 15), Field(w, 0, 255), 0))
         ELSE Err("InvalidOpcode")
    [] opcode = 11 ->
         Ok(InstrP(PEEK, Field(w, 8, 15), Immediate(Field(w, 0, 255)), 0))
    [] opcode = 12 ->
         Ok(InstrP(POKE, Field(w, 8, 15), Immediate(Field(w, 0, 255)), 0))
    [] opcode = 13 ->
         IF Field(w, 8, 15) \in 0..6
         THEN Ok(InstrX(Field(w, 8, 15),
                        DecodeXOperand(Field(w, 8, 15), Field(w, 0, 255)), 0))
         ELSE Err("InvalidOpcode")
    [] OTHER -> Err("InvalidOpcode")

(***************************************************************************)
(* Tokens and logical source lines                                         *)
(***************************************************************************)

Register(n) == [t |-> "Register", v |-> n]

\* Token::Immediate { value: i32, signed }
ImmediateTok(value, signed) == [t |-> "Immediate", value |-> value, signed |-> signed]

LabelRef(name) == [t |-> "LabelRef", name |-> name]

\* the `,`, `+` or `-` between the base and the offset of an M-type operand
Sep(c) == [t |-> "Sep", v |-> c]

NewLineTok == [t |-> "NewLine"]

GlobalLine(name) == [k |-> "global", name |-> name]

ImportLine(name) == [k |-> "import", name |-> name]

\* `NAME:` followed by anything but `.imm`
LabelLine(name) == [k |-> "label", name |-> name]

\* `NAME: .imm VALUE`
ImmLine(name, value) == [k |-> "imm", name |-> name, value |-> value]

\* `.text`, `.data`, `.bss`
SectionLine(name) == [k |-> "section", dotted |-> TRUE, stem |-> name]

\* `.section NAME`: the operand as written is stem, or "." followed by stem
NamedSectionLine(dotted, stem) == [k |-> "section", dotted |-> dotted, stem |-> stem]

ByteLine(vals) == [k |-> "byte", vals |-> vals]

WordLine(vals) == [k |-> "word", vals |-> vals]

InstrLine(m, ops) == [k |-> "instr", m |-> m, ops |-> ops]

(***************************************************************************)
(* Mnemonic::get_type and the from_instruction tables                      *)
(***************************************************************************)

AluNames ==
  <<"add", "addc", "sub", "subc", "and", "or", "xor", "not",
    "shl", "shr", "rol", "ror", "cmp", "tst", "mov", "neg">>

ImmNames == <<"ldi", "addi", "subi", "andi", "ori">>

MemNames == <<"ld", "st">>

BranchNames == <<"br", "beq", "bne", "bcs", "bcc", "bmi", "bpl">>

StackNames == {"push", "pop", "subsp", "addsp"}

PeekPokeNames == <<"poke", "peek">>

XNames == <<"sysc", "eret", "halt", "icinv", "dcinv", "dcclean", "flush">>

VirtualNames == {"nop", "inc", "dec"}

Range(s) == {s[i] : i \in DOMAIN s}

\* the enum value of the variant a mnemonic maps to
OpOf(names, m) == (CHOOSE i \in DOMAIN names : names[i] = m) - 1

get_type(m) ==
  CASE m \in Range(AluNames) -> "A"
    [] m \in Range(ImmNames) -> "I"
    [] m \in Range(MemNames) -> "M"
    [] m \in Range(BranchNames) -> "B"
    [] m \in StackNames -> "S"
    [] m \in Range(PeekPokeNames) -> "P"
    [] m \in Range(XNames) -> "X"
    [] m \in VirtualNames -> "Virtual"

(***************************************************************************)
(* Parser::process_instruction                                             *)
(***************************************************************************)

\* Parser::next_token on the tokens of one line: past the last operand the
\* lexer delivers the NewLine (or EoF) token
Tok(ops, i) == IF i <= Len(ops) THEN ops[i] ELSE NewLineTok

expect_register(tok) ==
  IF tok.t = "Register" THEN Ok(tok.v)
  ELSE IF tok.t = "Immediate" /\ ~tok.signed /\ tok.value \in 0..15 THEN Ok(tok.value)
  ELSE Err("UnexpectedToken")

expect_immediate_or_label(tok) ==
  IF tok.t = "Immediate" THEN Ok(Immediate(AsU16(tok.value)))
  ELSE IF tok.t = "LabelRef" THEN Ok(Label(tok.name))
  ELSE Err("UnexpectedToken")

\* Parser::expect_newline after n operand tokens
expect_newline(ops, n) == Tok(ops, n + 1).t = "NewLine"

\* process_a_type without the r0 guard
ProcessANoR0Check(m, ops, line) ==
  LET rd == expect_register(Tok(ops, 1))
      rs == expect_register(Tok(ops, 2))
      op == OpOf(AluNames, m)
  IN  IF ~rd.ok THEN rd
      ELSE IF ~rs.ok THEN rs
      ELSE IF ~expect_newline(ops, 2) THEN Err("UnexpectedToken")
      ELSE Ok(InstrA(op, rd.v, rs.v, line))

ProcessA(m, ops, line) ==
  LET rd == expect_register(Tok(ops, 1))
      rs == expect_register(Tok(ops, 2))
      op == OpOf(AluNames, m)
  IN  IF ~rd.ok THEN rd
      ELSE IF ~rs.ok THEN rs
      ELSE IF ~expect_newline(ops, 2) THEN Err("UnexpectedToken")
      ELSE IF rd.v = 0 /\ op \notin {CMP, TST} THEN Err("WriteToR0")
      ELSE Ok(InstrA(op, rd.v, rs.v, line))

ProcessI(m, ops, line) ==
  LET rd == expect_register(Tok(ops, 1))
      imm == expect_immediate_or_label(Tok(ops, 2))
      op == OpOf(ImmNames, m)
  IN  IF ~rd.ok THEN rd
      ELSE IF ~imm.ok THEN imm
      ELSE IF ~expect_newline(ops, 2) THEN Err("UnexpectedToken")
      ELSE IF rd.v = 0 THEN Err("WriteToR0")
      ELSE Ok(InstrI(op, rd.v, imm.v, line))

\* the offset token of an M-type operand, after the separator sep
MOffsetOf(sep, tok) ==
  IF tok.t = "Register"
  THEN IF sep = "-" THEN Err("InvalidParameters") ELSE Ok(SR(tok.v))
  ELSE IF tok.t = "Immediate"
  THEN LET imm_val == IF sep = "-" /\ tok.value > 0 THEN -tok.value ELSE tok.value
       IN  IF imm_val < -5 \/ imm_val > 7 THEN Err("ImmediateOutOfRange")
           ELSE Ok(Offset8(AsU8(imm_val)))
  ELSE Err("UnexpectedToken")

ProcessM(m, ops, line) ==
  LET rd == expect_register(Tok(ops, 1))
      base == expect_register(Tok(ops, 2))
      sep == Tok(ops, 3)
      offset == MOffsetOf(IF sep.v = "," THEN "+" ELSE sep.v, Tok(ops, 4))
      op == OpOf(MemNames, m)
  IN  IF ~rd.ok THEN rd
      ELSE IF ~base.ok THEN base
      ELSE IF sep.t # "Sep" THEN Err("UnexpectedToken")
      ELSE IF ~offset.ok THEN offset
      ELSE IF ~expect_newline(ops, 4) THEN Err("UnexpectedToken")
      ELSE IF rd.v = 0 /\ op = LD THEN Err("WriteToR0")
      ELSE Ok(InstrM(op, rd.v, base.v, offset.v, line))

ProcessB(m, ops, line) ==
  LET cond == OpOf(BranchNames, m)
      tok == Tok(ops, 1)
  IN  CASE tok.t = "Immediate" ->
             IF tok.signed
             THEN IF tok.value < -128 \/ tok.value > 127 THEN Err("ImmediateOutOfRange")
                  ELSE IF ~expect_newline(ops, 1) THEN Err("UnexpectedToken")
                  ELSE Ok(InstrBI(FALSE, cond, Immediate(AsU16(tok.value)), line))
             ELSE IF ~expect_newline(ops, 1) THEN Err("UnexpectedToken")
                  ELSE Ok(InstrBI(TRUE, cond, Immediate(AsU16(tok.value)), line))
        [] tok.t = "LabelRef" ->
             IF ~expect_newline(ops, 1) THEN Err("UnexpectedToken")
             ELSE Ok(InstrBI(TRUE, cond, Label(tok.name), line))
        [] tok.t = "Register" ->
             LET reg2 == expect_register(Tok(ops, 2))
             IN  IF ~reg2.ok THEN reg2
                 ELSE IF ~expect_newline(ops, 2) THEN Err("UnexpectedToken")
                 ELSE Ok(InstrBR(TRUE, cond, tok.v, reg2.v, line))
        [] OTHER -> Err("UnexpectedToken")

\* subsp / addsp: a register selects the _REG op, an immediate the _IMM op
ProcessSpAdjust(reg_op, imm_op, ops, line) ==
  LET tok == Tok(ops, 1)
  IN  CASE tok.t = "Register" ->
             IF ~expect_newline(ops, 1) THEN Err("UnexpectedToken")
             ELSE Ok(InstrS(reg_op, tok.v, line))
        [] tok.t = "Immediate" ->
             IF tok.value < 0 \/ tok.value > 255 THEN Err("ImmediateOutOfRange")
             ELSE IF ~expect_newline(ops, 1) THEN Err("UnexpectedToken")
             ELSE Ok(InstrS(imm_op, AsU8(tok.value), line))
        [] OTHER -> Err("UnexpectedToken")

ProcessS(m, ops, line) ==
  LET tok == Tok(ops, 1)
  IN  CASE m = "push" ->
             IF tok.t # "Register" THEN Err("UnexpectedToken")
             ELSE IF ~expect_newline(ops, 1) THEN Err("UnexpectedToken")
             ELSE Ok(InstrS(PUSH, tok.v, line))
        [] m = "pop" ->
             IF tok.t # "Register" THEN Err("UnexpectedToken")
             ELSE IF tok.v = 0 THEN Err("WriteToR0")
             ELSE IF ~expect_newline(ops, 1) THEN Err("UnexpectedToken")
             ELSE Ok(InstrS(POP, tok.v, line))
        [] m = "subsp" -> ProcessSpAdjust(SUBSP_REG, SUBSP_IMM, ops, line)
        [] m = "addsp" -> ProcessSpAdjust(ADDSP_REG, ADDSP_IMM, ops, line)

ProcessP(m, ops, line) ==
  LET reg == expect_register(Tok(ops, 1))
      offset == expect_immediate_or_label(Tok(ops, 2))
      op == OpOf(PeekPokeNames, m)
  IN  IF ~reg.ok THEN reg
      ELSE IF ~offset.ok THEN offset
      ELSE IF ~expect_newline(ops, 2) THEN Err("UnexpectedToken")
      ELSE IF reg.v = 0 /\ op = PEEK THEN Err("WriteToR0")
      ELSE Ok(InstrP(op, reg.v, offset.v, line))

ProcessX(m, ops, line) ==
  LET tok == Tok(ops, 1)
      op == OpOf(XNames, m)
  IN  CASE tok.t = "NewLine" -> Ok(InstrX(op, XNone, line))
        [] tok.t = "Immediate" ->
             IF ~expect_newline(ops, 1) THEN Err("UnexpectedToken")
             ELSE Ok(InstrX(op, XImmediate(AsU8(tok.value)), line))
        [] tok.t = "Register" ->
             IF Tok(ops, 2).t = "NewLine" THEN Ok(InstrX(op, XRegister(tok.v), line))
             ELSE LET reg2 == expect_register(Tok(ops, 2))
                  IN  IF ~reg2.ok THEN reg2
                      ELSE IF ~expect_newline(ops, 2) THEN Err("UnexpectedToken")
                      ELSE Ok(InstrX(op, XRegisters(tok.v, reg2.v), line))
        [] OTHER -> Err("UnexpectedToken")

ProcessVirtual(m, ops, line) ==
  IF m = "nop"
  THEN IF ~expect_newline(ops, 0) THEN Err("UnexpectedToken")
       ELSE Ok(InstrA(ADD, 0, 0, line))
  ELSE LET rd == expect_register(Tok(ops, 1))
       IN  IF ~rd.ok THEN rd
           ELSE IF ~expect_newline(ops, 1) THEN Err("UnexpectedToken")
           ELSE IF rd.v = 0 THEN Err("WriteToR0")
           ELSE Ok(InstrI(IF m = "inc" THEN ADDI ELSE SUBI, rd.v, Immediate(1), line))

process_instruction(m, ops, line) ==
  CASE get_type(m) = "A" -> ProcessA(m, ops, line)
    [] get_type(m) = "I" -> ProcessI(m, ops, line)
    [] get_type(m) = "M" -> ProcessM(m, ops, line)
    [] get_type(m) = "B" -> ProcessB(m, ops, line)
    [] get_type(m) = "S" -> ProcessS(m, ops, line)
    [] get_type(m) = "P" -> ProcessP(m, ops, line)
    [] get_type(m) = "X" -> ProcessX(m, ops, line)
    [] get_type(m) = "Virtual" -> ProcessVirtual(m, ops, line)

(***************************************************************************)
(* Parser: symbol table, directives, one logical line per step             *)
(***************************************************************************)

SymLabel(offset, section) == [k |-> "Label", offset |-> offset, section |-> section]

SymConstant(value) == [k |-> "Constant", value |-> value]

ItemInstruction(instr) == [k |-> "Instruction", instr |-> instr]

ItemData(bytes) == [k |-> "Data", bytes |-> bytes]

ItemSectionChange(name) == [k |-> "SectionChange", name |-> name]

EmptyMap == [x \in {} |-> 0]

\* HashMap::insert / BTreeMap::insert: the new value replaces an old one
MapInsert(map, key, value) ==
  [x \in DOMAIN map \cup {key} |-> IF x = key THEN value ELSE map[x]]

\* Parser::new
ParserNew ==
  [pos |-> 0, current_section |-> ".text", symbols |-> EmptyMap,
   exports |-> {}, imports |-> {}]

\* collect_byte_list: every value in -128..255, stored `as u8`
collect_byte_list(vals) ==
  IF \E i \in DOMAIN vals : vals[i] < -128 \/ vals[i] > 255
  THEN Err("ImmediateOutOfRange")
  ELSE Ok([i \in DOMAIN vals |-> AsU8(vals[i])])

\* collect_word_list: every value in -32768..65535, stored little-endian
collect_word_list(vals) ==
  IF \E i \in DOMAIN vals : vals[i] < -32768 \/ vals[i] > 65535
  THEN Err("ImmediateOutOfRange")
  ELSE Ok([i \in 1..(2 * Len(vals)) |->
             IF i % 2 = 1 THEN AsU8(AsU16(vals[(i + 1) \div 2]))
             ELSE Shr(AsU16(vals[i \div 2]), 8)])

\* the section a `.text`/`.data`/`.bss`/`.section NAME` line switches to
SectionNameOf(line) == "." \o line.stem

\* handle_directive for Text, Data, Bss and Section
SectionDirective(p, line) ==
  [parser |-> [p EXCEPT !.current_section = SectionNameOf(line), !.pos = 0],
   item |-> <<ItemSectionChange(SectionNameOf(line))>>, err |-> "none"]

\* handle_directive for Byte, Word and Ascii
DataDirective(p, line) ==
  LET data == IF line.k = "byte" THEN collect_byte_list(line.vals)
              ELSE collect_word_list(line.vals)
  IN  IF ~data.ok THEN [parser |-> p, item |-> <<>>, err |-> data.err]
      ELSE [parser |-> [p EXCEPT !.pos = p.pos + Len(data.v)],
            item |-> <<ItemData(data.v)>>, err |-> "none"]

\* the LabelDef arm of Parser::next
LabelDef(p, line) ==
  LET sym == IF line.k = "imm" THEN SymConstant(AsU16(line.value))
             ELSE SymLabel(p.pos, p.current_section)
  IN  [parser |-> [p EXCEPT !.symbols = MapInsert(p.symbols, line.name, sym)],
       item |-> <<>>, err |-> "none"]

\* the Mnemonic arm of Parser::next
MnemonicLine(p, line, lineno) ==
  LET r == process_instruction(line.m, line.ops, lineno)
  IN  IF ~r.ok THEN [parser |-> p, item |-> <<>>, err |-> r.err]
      ELSE [parser |-> [p EXCEPT !.pos = p.pos + 2],
            item |-> <<ItemInstruction(r.v)>>, err |-> "none"]

\* what Parser::next does with one logical line: the parser after it, the
\* item it yields (none for labels, .global and .import) and the error
ParseLine(p, line, lineno) ==
  CASE line.k = "global" ->
         [parser |-> [p EXCEPT !.exports = p.exports \cup {line.name}],
          item |-> <<>>, err |-> "none"]
    [] line.k = "import" ->
         [parser |-> [p EXCEPT !.imports = p.imports \cup {line.name}],
          item |-> <<>>, err |-> "none"]
    [] line.k \in {"label", "imm"} -> LabelDef(p, line)
    [] line.k = "section" -> SectionDirective(p, line)
    [] line.k \in {"byte", "word"} -> DataDirective(p, line)
    [] line.k = "instr" -> MnemonicLine(p, line, lineno)

(***************************************************************************)
(* Assembler back-end: assemble, pass 2 and the object lists               *)
(***************************************************************************)

\* the section and symbol names of the model in the order of String's Ord
\* (byte-wise), which is the iteration order of a BTreeMap<String, _>
NameOrder == <<".abs", ".bss", ".data", ".rodata", ".text", "ext", "inc_r1", "k", "start">>

\* the operand of an I, BI or P instruction
OperandOf(x) ==
  CASE x.fmt = "I" -> x.immediate
    [] x.fmt = "BI" -> x.operand
    [] x.fmt = "P" -> x.offset

WithOperand(x, o) ==
  CASE x.fmt = "I" -> [x EXCEPT !.immediate = o]
    [] x.fmt = "BI" -> [x EXCEPT !.operand = o]
    [] x.fmt = "P" -> [x EXCEPT !.offset = o]

HasLabelOperand(x) == x.fmt \in {"I", "BI", "P"} /\ OperandOf(x).t = "Label"

SymbolValue(sym) == IF sym.k = "Constant" THEN sym.value ELSE AsU16(sym.offset)

\* a back-end that resolves no operand locally
ResolveNothing(x, symbols) == x

resolve_local_operands(x, symbols) ==
  IF HasLabelOperand(x) /\ OperandOf(x).name \in DOMAIN symbols
  THEN WithOperand(x, Immediate(SymbolValue(symbols[OperandOf(x).name])))
  ELSE x

\* a placeholder that keeps a nonzero immediate
PlaceholderOne(x) ==
  IF HasLabelOperand(x)
  THEN LET e == encode(WithOperand(x, Immediate(1)))
       IN  IF e.ok THEN Ok([word |-> e.v, label |-> <<OperandOf(x).name>>]) ELSE e
  ELSE LET e == encode(x)
       IN  IF e.ok THEN Ok([word |-> e.v, label |-> <<>>]) ELSE e

\* the encoding and the label left unresolved, if any
encode_or_placeholder(x) ==
  IF HasLabelOperand(x)
  THEN LET e == encode(WithOperand(x, Immediate(0)))
       IN  IF e.ok THEN Ok([word |-> e.v, label |-> <<OperandOf(x).name>>]) ELSE e
  ELSE LET e == encode(x)
       IN  IF e.ok THEN Ok([word |-> e.v, label |-> <<>>]) ELSE e

UnresolvedReference(offset, section, symbol) ==
  [offset |-> offset, section |-> section, symbol |-> symbol, addend |-> 0]

\* section_data.entry(name).or_default()
EntryOrDefault(section_data, name) ==
  IF name \in DOMAIN section_data THEN section_data
  ELSE MapInsert(section_data, name, <<>>)

Pass2Init ==
  [section_data |-> EmptyMap, current_section |-> ".text", unresolved |-> <<>>,
   err |-> "none"]

\* one iteration of the pass-2 loop of assemble
EmitItem(st, item, symbols) ==
  CASE item.k = "SectionChange" ->
         [st EXCEPT !.current_section = item.name,
                    !.section_data = EntryOrDefault(st.section_data, item.name)]
    [] item.k = "Data" ->
         LET sd == EntryOrDefault(st.section_data, st.current_section)
         IN  [st EXCEPT !.section_data =
                [sd EXCEPT ![st.current_section] = sd[st.current_section] \o item.bytes]]
    [] item.k = "Instruction" ->
         LET sd == EntryOrDefault(st.section_data, st.current_section)
             byte_offset == Len(sd[st.current_section])
             e == encode_or_placeholder(resolve_local_operands(item.instr, symbols))
         IN  IF ~e.ok THEN [st EXCEPT !.err = "EncodingError", !.section_data = sd]
             ELSE [st EXCEPT
                     !.section_data =
                        [sd EXCEPT ![st.current_section] =
                           sd[st.current_section] \o
                             <<AsU8(Shr(e.v.word, 8)), AsU8(e.v.word)>>],
                     !.unresolved =
                        IF e.v.label = <<>> THEN st.unresolved
                        ELSE Append(st.unresolved,
                               UnresolvedReference(byte_offset, st.current_section,
                                                   e.v.label[1]))]

RECURSIVE Pass2From(_, _, _)
Pass2From(st, items, symbols) ==
  IF items = <<>> \/ st.err # "none" THEN st
  ELSE Pass2From(EmitItem(st, Head(items), symbols), Tail(items), symbols)

\* the pass-2 loop over all items
Pass2(items, symbols) == Pass2From(Pass2Init, items, symbols)

\* the keys of a BTreeMap in iteration order
BTreeKeys(map) == SelectSeq(NameOrder, LAMBDA n : n \in DOMAIN map)

\* the section list: one record per entry of section_data, in map order
BuildSections(section_data) ==
  LET keys == BTreeKeys(section_data)
  IN  [i \in DOMAIN keys |->
         [name |-> keys[i], start |-> 0, data |-> section_data[keys[i]]]]

Some(v) == <<v>>

None == <<>>

Binding(p, name) == IF name \in p.exports THEN "Global" ELSE "Local"

DefinedSymbol(p, name) ==
  LET sym == p.symbols[name]
  IN  IF sym.k = "Label"
      THEN [name |-> name, value |-> sym.offset, section |-> Some(sym.section),
            binding |-> Binding(p, name)]
      ELSE [name |-> name, value |-> sym.value, section |-> Some(".abs"),
            binding |-> Binding(p, name)]

UndefinedSymbol(name) ==
  [name |-> name, value |-> 0, section |-> None, binding |-> "Global"]

\* every enumeration of a set: the iteration orders of a HashMap or HashSet
Orders(S) ==
  {f \in [1..Cardinality(S) -> S] : \A i, j \in 1..Cardinality(S) : f[i] = f[j] => i = j}

\* a symbol list with an undefined record for every import
BuildSymbolsUnfiltered(p, sym_order, imp_order) ==
  [i \in DOMAIN sym_order |-> DefinedSymbol(p, sym_order[i])]
    \o [i \in DOMAIN imp_order |-> UndefinedSymbol(imp_order[i])]

\* the symbol list: the defined symbols in the order sym_order in which the
\* HashMap yields them, then the imports without a definition in imp_order
BuildSymbols(p, sym_order, imp_order) ==
  [i \in DOMAIN sym_order |-> DefinedSymbol(p, sym_order[i])]
    \o [i \in DOMAIN SelectSeq(imp_order, LAMBDA n : n \notin DOMAIN p.symbols) |->
          UndefinedSymbol(SelectSeq(imp_order, LAMBDA n : n \notin DOMAIN p.symbols)[i])]

\* the relocation list in reverse order
BuildRelocationsReversed(unresolved) ==
  [i \in DOMAIN unresolved |->
     [offset |-> unresolved[Len(unresolved) + 1 - i].offset,
      symbol |-> unresolved[Len(unresolved) + 1 - i].symbol,
      addend |-> unresolved[Len(unresolved) + 1 - i].addend,
      section |-> unresolved[Len(unresolved) + 1 - i].section]]

BuildRelocations(unresolved) ==
  [i \in DOMAIN unresolved |->
     [offset |-> unresolved[i].offset, symbol |-> unresolved[i].symbol,
      addend |-> unresolved[i].addend, section |-> unresolved[i].section]]

\* a back-end that does not validate the exports
BackEndNoValidation(p, items, sym_order, imp_order) ==
  LET st == Pass2(items, p.symbols)
  IN  IF st.err # "none" THEN Err(st.err)
      ELSE Ok([sections |-> BuildSections(st.section_data),
               symbols |-> BuildSymbols(p, sym_order, imp_order),
               relocations |-> BuildRelocations(st.unresolved),
               version |-> 1])

\* assemble after pass 1: pass 2, the section, symbol and relocation lists,
\* the validation of the exports, and the object written
BackEnd(p, items, sym_order, imp_order) ==
  LET st == Pass2(items, p.symbols)
  IN  IF st.err # "none" THEN Err(st.err)
      ELSE IF \E e \in p.exports : e \notin DOMAIN p.symbols
      THEN Err("ExportedSymbolNotDefined")
      ELSE Ok([sections |-> BuildSections(st.section_data),
               symbols |-> BuildSymbols(p, sym_order, imp_order),
               relocations |-> BuildRelocations(st.unresolved),
               version |-> 1])

RECURSIVE RunParser(_, _, _)
\* pass 1 on the remaining lines: the parser, the items and the first error
RunParser(acc, lines, lineno) ==
  IF lines = <<>> \/ acc.err # "none" THEN acc
  ELSE LET r == ParseLine(acc.parser, Head(lines), lineno)
       IN  RunParser([parser |-> r.parser, items |-> acc.items \o r.item, err |-> r.err],
                     Tail(lines), lineno + 1)

\* assemble on a whole source, with the iteration orders of its hash tables
assemble(source, sym_order, imp_order) ==
  LET p1 == RunParser([parser |-> ParserNew, items |-> <<>>, err |-> "none"], source, 1)
  IN  IF p1.err # "none" THEN Err(p1.err)
      ELSE BackEnd(p1.parser, p1.items, sym_order, imp_order)

(***************************************************************************)
(* Linker: link                                                            *)
(***************************************************************************)

RECURSIVE Tagged(_, _, _)
\* the records of one list of every loaded object, in input order, each with
\* the index of its file (file_idx counts from 0)
Tagged(loaded, field, file_idx) ==
  IF file_idx >= Len(loaded) THEN <<>>
  ELSE LET recs == loaded[file_idx + 1][field]
       IN  [j \in DOMAIN recs |-> [file_idx |-> file_idx, rec |-> recs[j]]]
             \o Tagged(loaded, field, file_idx + 1)

\* the linker before step 2; named is the symbol an error message names
LinkInit ==
  [status |-> "idle", merged_sections |-> EmptyMap, section_bases |-> EmptyMap,
   label_map |-> EmptyMap, output |-> <<>>, named |-> <<>>]

\* step 2 for one section of one file
MergeSection(st, t) ==
  LET merged == EntryOrDefault(st.merged_sections, t.rec.name)
      base == Len(merged[t.rec.name])
  IN  [st EXCEPT
         !.section_bases = MapInsert(st.section_bases, <<t.file_idx, t.rec.name>>, base),
         !.merged_sections = [merged EXCEPT ![t.rec.name] = merged[t.rec.name] \o t.rec.data]]

\* section_bases.get(&(file_idx, name)).copied().unwrap_or(0)
BaseOf(st, file_idx, name) ==
  IF <<file_idx, name>> \in DOMAIN st.section_bases
  THEN st.section_bases[<<file_idx, name>>] ELSE 0

\* step 3 for one symbol of one file
RegisterSymbol(st, t) ==
  IF t.rec.section = None THEN st
  ELSE IF t.rec.section[1] = ".abs"
  THEN [st EXCEPT !.label_map = MapInsert(st.label_map, t.rec.name, AsU16(t.rec.value))]
  ELSE IF t.rec.binding = "Global" /\ t.rec.name \in DOMAIN st.label_map
  THEN [st EXCEPT !.status = "DuplicateSymbol", !.named = <<t.rec.name>>]
  ELSE [st EXCEPT !.label_map =
          MapInsert(st.label_map, t.rec.name,
                    AsU16(BaseOf(st, t.file_idx, t.rec.section[1]) + t.rec.value))]

\* `(symbol_value as i32 + reloc.addend) as u16`
FinalValue(symbol_value, addend) == AsU16(symbol_value + addend)

\* a patch of the high byte of the word
PatchHighByte(data, patch_offset, final_value) ==
  [data EXCEPT ![patch_offset + 1] = AsU8(final_value)]

\* a patch that writes the whole word
PatchWord(data, patch_offset, final_value) ==
  [data EXCEPT ![patch_offset + 1] = 0, ![patch_offset + 2] = AsU8(final_value)]

\* the patched section data; patch_offset counts from 0
Patch(data, patch_offset, final_value) ==
  [data EXCEPT ![patch_offset + 2] = AsU8(final_value)]

\* step 4 without the range check of final_value
ApplyRelocationUnchecked(st, t) ==
  LET patch_offset == BaseOf(st, t.file_idx, t.rec.section) + t.rec.offset
  IN  IF t.rec.symbol \notin DOMAIN st.label_map
      THEN [st EXCEPT !.status = "UnresolvedLabel", !.named = <<t.rec.symbol>>]
      ELSE IF t.rec.section \notin DOMAIN st.merged_sections
      THEN [st EXCEPT !.status = "ObjectFile"]
      ELSE IF patch_offset + 1 >= Len(st.merged_sections[t.rec.section])
      THEN [st EXCEPT !.status = "ObjectFile"]
      ELSE [st EXCEPT !.merged_sections[t.rec.section] =
              Patch(@, patch_offset, FinalValue(st.label_map[t.rec.symbol], t.rec.addend))]

\* step 4 that leaves the placeholder of an unknown symbol in place
ApplyRelocationLenient(st, t) ==
  LET patch_offset == BaseOf(st, t.file_idx, t.rec.section) + t.rec.offset
  IN  IF t.rec.symbol \notin DOMAIN st.label_map
      THEN st
      ELSE IF t.rec.section \notin DOMAIN st.merged_sections
      THEN [st EXCEPT !.status = "ObjectFile"]
      ELSE IF patch_offset + 1 >= Len(st.merged_sections[t.rec.section])
      THEN [st EXCEPT !.status = "ObjectFile"]
      ELSE IF FinalValue(st.label_map[t.rec.symbol], t.rec.addend) > 255
      THEN [st EXCEPT !.status = "Encoding", !.named = <<t.rec.symbol>>]
      ELSE [st EXCEPT !.merged_sections[t.rec.section] =
              Patch(@, patch_offset, FinalValue(st.label_map[t.rec.symbol], t.rec.addend))]

\* step 4 for one relocation of one file
ApplyRelocation(st, t) ==
  LET patch_offset == BaseOf(st, t.file_idx, t.rec.section) + t.rec.offset
  IN  IF t.rec.symbol \notin DOMAIN st.label_map
      THEN [st EXCEPT !.status = "UnresolvedLabel", !.named = <<t.rec.symbol>>]
      ELSE IF t.rec.section \notin DOMAIN st.merged_sections
      THEN [st EXCEPT !.status = "ObjectFile"]
      ELSE IF patch_offset + 1 >= Len(st.merged_sections[t.rec.section])
      THEN [st EXCEPT !.status = "ObjectFile"]
      ELSE IF FinalValue(st.label_map[t.rec.symbol], t.rec.addend) > 255
      THEN [st EXCEPT !.status = "Encoding", !.named = <<t.rec.symbol>>]
      ELSE [st EXCEPT !.merged_sections[t.rec.section] =
              Patch(@, patch_offset, FinalValue(st.label_map[t.rec.symbol], t.rec.addend))]

RECURSIVE MergeAll(_, _)
MergeAll(st, list) ==
  IF list = <<>> THEN st ELSE MergeAll(MergeSection(st, Head(list)), Tail(list))

RECURSIVE RegisterAll(_, _)
RegisterAll(st, list) ==
  IF list = <<>> \/ st.status # "idle" THEN st
  ELSE RegisterAll(RegisterSymbol(st, Head(list)), Tail(list))

RECURSIVE ApplyAll(_, _)
ApplyAll(st, list) ==
  IF list = <<>> \/ st.status # "idle" THEN st
  ELSE ApplyAll(ApplyRelocation(st, Head(list)), Tail(list))

RECURSIVE Concat(_, _)
\* the sections named by keys, concatenated
Concat(map, keys) ==
  IF keys = <<>> THEN <<>> ELSE map[Head(keys)] \o Concat(map, Tail(keys))

\* an image of all the sections in plain map order
OutputBytesMapOrder(merged_sections) ==
  Concat(merged_sections, BTreeKeys(merged_sections))

\* step 5: `.text` first, then every other section in map order
OutputBytes(merged_sections) ==
  (IF ".text" \in DOMAIN merged_sections THEN merged_sections[".text"] ELSE <<>>)
    \o Concat(merged_sections,
              SelectSeq(BTreeKeys(merged_sections), LAMBDA n : n # ".text"))

\* link on the loaded objects, steps 2 to 5
link(loaded) ==
  LET merged == MergeAll(LinkInit, Tagged(loaded, "sections", 0))
      table == RegisterAll(merged, Tagged(loaded, "symbols", 0))
      patched == ApplyAll(table, Tagged(loaded, "relocations", 0))
  IN  IF patched.status # "idle" THEN patched
      ELSE [patched EXCEPT !.status = "ok", !.output = OutputBytes(patched.merged_sections)]

(***************************************************************************)
(* Intel HEX: to_ihex and from_ihex                                        *)
(***************************************************************************)

BYTES_PER_LINE == 16

HexDigits ==
  <<"0", "1", "2", "3", "4", "5", "6", "7", "8", "9", "A", "B", "C", "D", "E", "F">>

\* a byte written low nibble first
Hex2LowFirst(b) == <<HexDigits[(b % 16) + 1], HexDigits[(b \div 16) + 1]>>

\* `{:02X}`: the two upper-case hex digits of a byte
Hex2(b) == <<HexDigits[(b \div 16) + 1], HexDigits[(b % 16) + 1]>>

\* `{:04X}`: the four upper-case hex digits of a 16-bit value
Hex4(a) == Hex2(a \div 256) \o Hex2(a % 256)

RECURSIVE SumBytes(_)
SumBytes(bytes) == IF bytes = <<>> THEN 0 ELSE Head(bytes) + SumBytes(Tail(bytes))

RECURSIVE HexOfBytes(_)
\* the digits `{:02X}` writes for each byte of the chunk
HexOfBytes(bytes) ==
  IF bytes = <<>> THEN <<>> ELSE Hex2(Head(bytes)) \o HexOfBytes(Tail(bytes))

\* a record whose checksum is the one's complement of the sum
DataRecordOnesComplement(chunk, address) ==
  LET byte_count == AsU8(Len(chunk))
      sum == AsU8(byte_count + AsU8(Shr(address, 8)) + AsU8(address) + 0 + SumBytes(chunk))
  IN  <<":">> \o Hex2(byte_count) \o Hex4(address) \o Hex2(0)
        \o HexOfBytes(chunk) \o Hex2(255 - sum)

\* the line to_ihex writes for one chunk, without its line feed; sum is a u8
\* and the checksum its two's complement
DataRecord(chunk, address) ==
  LET byte_count == AsU8(Len(chunk))
      sum == AsU8(byte_count + AsU8(Shr(address, 8)) + AsU8(address) + 0 + SumBytes(chunk))
      checksum == AsU8((255 - sum) + 1)
  IN  <<":">> \o Hex2(byte_count) \o Hex4(address) \o Hex2(0)
        \o HexOfBytes(chunk) \o Hex2(checksum)

\* `:00000001FF`
EofRecord == <<":", "0", "0", "0", "0", "0", "0", "0", "1", "F", "F">>

\* data.chunks(BYTES_PER_LINE): chunk_idx counts from 0
Chunk(data, chunk_idx) ==
  SubSeq(data, chunk_idx * BYTES_PER_LINE + 1,
         IF (chunk_idx + 1) * BYTES_PER_LINE < Len(data)
         THEN (chunk_idx + 1) * BYTES_PER_LINE ELSE Len(data))

\* the lines of the string to_ihex returns, each without its line feed
to_ihex(data, base_address) ==
  [k \in 1..((Len(data) + BYTES_PER_LINE - 1) \div BYTES_PER_LINE) |->
     DataRecord(Chunk(data, k - 1),
                AsU16(base_address + AsU16((k - 1) * BYTES_PER_LINE)))]
    \o <<EofRecord>>

\* char::to_digit(16): the value of a hex digit of either case, -1 for any
\* other character
DigitValue(c) ==
  IF \E i \in 1..16 : HexDigits[i] = c
  THEN (CHOOSE i \in 1..16 : HexDigits[i] = c) - 1
  ELSE IF \E i \in 1..6 : <<"a", "b", "c", "d", "e", "f">>[i] = c
  THEN (CHOOSE i \in 1..6 : <<"a", "b", "c", "d", "e", "f">>[i] = c) + 9
  ELSE -1

RECURSIVE from_str_radix(_)
\* u8::from_str_radix / u16::from_str_radix of the digits, base 16; -1 stands
\* for the error
from_str_radix(chars) ==
  IF chars = <<>> THEN -1
  ELSE IF DigitValue(chars[Len(chars)]) < 0 THEN -1
  ELSE IF Len(chars) = 1 THEN DigitValue(chars[1])
  ELSE LET high == from_str_radix(SubSeq(chars, 1, Len(chars) - 1))
       IN  IF high < 0 THEN -1 ELSE high * 16 + DigitValue(chars[Len(chars)])

\* one iteration of the loop of from_ihex over the lines
ReadLine(st, line) ==
  IF line = <<>> THEN st
  ELSE IF line[1] # ":" THEN [st EXCEPT !.err = "Line does not start with ':'"]
  ELSE IF Len(line) - 1 < 10 THEN [st EXCEPT !.err = "Line too short"]
  ELSE
    LET hex_str == Tail(line)
        byte_count == from_str_radix(SubSeq(hex_str, 1, 2))
        record_type == from_str_radix(SubSeq(hex_str, 7, 8))
        address == from_str_radix(SubSeq(hex_str, 3, 6))
        needed == address + byte_count
        resized == IF Len(st.result) < needed
                   THEN st.result \o [i \in 1..(needed - Len(st.result)) |-> 0]
                   ELSE st.result
        bytes == [i \in 1..byte_count |->
                    from_str_radix(SubSeq(hex_str, 7 + 2 * i, 8 + 2 * i))]
    IN  IF byte_count < 0 THEN [st EXCEPT !.err = "Invalid byte count"]
        ELSE IF record_type < 0 THEN [st EXCEPT !.err = "Invalid record type"]
        ELSE IF record_type = 1 THEN [st EXCEPT !.done = TRUE]
        ELSE IF record_type # 0 THEN st
        ELSE IF address < 0 THEN [st EXCEPT !.err = "Invalid address"]
        ELSE IF Len(hex_str) < 8 + 2 * byte_count THEN [st EXCEPT !.err = "panic"]
        ELSE IF \E i \in 1..byte_count : bytes[i] < 0
        THEN [st EXCEPT !.err = "Invalid data byte"]
        ELSE [st EXCEPT !.result =
                SubSeq(resized, 1, address) \o bytes
                  \o SubSeq(resized, address + byte_count + 1, Len(resized))]

RECURSIVE ReadLines(_, _, _, _)
\* the loop of from_ihex over the lines first..last of the text, in order; an
\* error or the EOF record ends it
ReadLines(st, text, first, last) ==
  IF first > last \/ st.done \/ st.err # "none" THEN st
  ELSE IF first = last THEN ReadLine(st, text[first])
  ELSE ReadLines(ReadLines(st, text, first, (first + last) \div 2),
                 text, (first + last) \div 2 + 1, last)

\* from_ihex on the lines of a string
from_ihex(text) ==
  LET st == ReadLines([result |-> <<>>, done |-> FALSE, err |-> "none"], text, 1, Len(text))
  IN  IF st.err # "none" THEN Err(st.err) ELSE Ok(st.result)

(***************************************************************************)
(* Object files: ObjectFile::to_file and ObjectFile::from_file             *)
(* A String is the sequence of its UTF-8 bytes.                            *)
(***************************************************************************)

\* b"ATOB"
MAGIC == <<65, 84, 79, 66>>

\* u32::to_le_bytes and i32::to_le_bytes: the four bytes of the two's
\* complement, lowest first
to_le_bytes(v) ==
  <<v % 256, (v \div 256) % 256, (v \div 65536) % 256, (v \div 16777216) % 256>>

\* u32::from_le_bytes
u32_from_le_bytes(b) == b[1] + 256 * b[2] + 65536 * b[3] + 16777216 * b[4]

\* i32::from_le_bytes: the top byte carries the sign
i32_from_le_bytes(b) ==
  (IF b[4] >= 128 THEN b[4] - 256 ELSE b[4]) * 16777216
    + 65536 * b[3] + 256 * b[2] + b[1]

\* a length as u32, then the bytes of the string
StringBytes(s) == to_le_bytes(Len(s)) \o s

SectionBytes(section) ==
  StringBytes(section.name) \o to_le_bytes(section.start)
    \o to_le_bytes(Len(section.data)) \o section.data

\* a writer that stores every binding as Local
BindingByteLocal(binding) == 0

\* `symbol.binding as u8`
BindingByte(binding) == IF binding = "Local" THEN 0 ELSE 1

SymbolBytes(symbol) ==
  StringBytes(symbol.name) \o to_le_bytes(symbol.value)
    \o (IF symbol.section # None THEN <<1>> \o StringBytes(symbol.section[1]) ELSE <<0>>)
    \o <<BindingByte(symbol.binding)>>

RelocationBytes(reloc) ==
  to_le_bytes(reloc.offset) \o StringBytes(reloc.symbol)
    \o to_le_bytes(reloc.addend) \o StringBytes(reloc.section)

RECURSIVE RecordsBytes(_, _)
\* the bytes of the records of one list, in order
RecordsBytes(kind, records) ==
  IF records = <<>> THEN <<>>
  ELSE (CASE kind = "section" -> SectionBytes(Head(records))
          [] kind = "symbol" -> SymbolBytes(Head(records))
          [] kind = "relocation" -> RelocationBytes(Head(records)))
         \o RecordsBytes(kind, Tail(records))

\* the bytes to_file writes
to_file(obj) ==
  MAGIC \o to_le_bytes(obj.version)
    \o to_le_bytes(Len(obj.sections)) \o to_le_bytes(Len(obj.symbols))
    \o to_le_bytes(Len(obj.relocations))
    \o RecordsBytes("section", obj.sections) \o RecordsBytes("symbol", obj.symbols)
    \o RecordsBytes("relocation", obj.relocations)

\* the result of a read at a position of the file: the value and the position
\* after it, or the error
Read(v, pos) == [ok |-> TRUE, v |-> v, pos |-> pos]

ReadErr(kind) == [ok |-> FALSE, v |-> kind, pos |-> 0]

\* file.read_exact of n bytes; pos is the number of bytes read before
read_exact(file, pos, n) ==
  IF pos + n <= Len(file) THEN Read(SubSeq(file, pos + 1, pos + n), pos + n)
  ELSE ReadErr("UnexpectedEof")

ReadU32(file, pos) ==
  LET r == read_exact(file, pos, 4)
  IN  IF r.ok THEN Read(u32_from_le_bytes(r.v), r.pos) ELSE r

ReadI32(file, pos) ==
  LET r == read_exact(file, pos, 4)
  IN  IF r.ok THEN Read(i32_from_le_bytes(r.v), r.pos) ELSE r

\* String::from_utf8 on the bytes read (bytes of one-byte characters: each
\* must be below 0x80)
ReadStringUtf8(r) ==
  IF ~r.ok THEN r
  ELSE IF \E i \in DOMAIN r.v : r.v[i] >= 128 THEN ReadErr("InvalidData")
  ELSE r

ReadStringBytes(file, n) ==
  IF ~n.ok THEN n ELSE ReadStringUtf8(read_exact(file, n.pos, n.v))

\* read_string: a length, then that many bytes
ReadString(file, pos) == ReadStringBytes(file, ReadU32(file, pos))

\* a section record, one operator per field read: name, start, size, data
ReadSectionDone(name, start, data) ==
  IF ~data.ok THEN data
  ELSE Read([name |-> name, start |-> start, data |-> data.v], data.pos)

ReadSectionData(file, name, start, size) ==
  IF ~size.ok THEN size
  ELSE ReadSectionDone(name, start, read_exact(file, size.pos, size.v))

ReadSectionSize(file, name, start) ==
  IF ~start.ok THEN start
  ELSE ReadSectionData(file, name, start.v, ReadU32(file, start.pos))

ReadSectionStart(file, name) ==
  IF ~name.ok THEN name
  ELSE ReadSectionSize(file, name.v, ReadU32(file, name.pos))

ReadSection(file, pos) == ReadSectionStart(file, ReadString(file, pos))

\* a symbol record: name, value, section flag, section name when the flag is
\* 1, binding byte
ReadSymbolDone(name, value, section, binding_byte) ==
  IF ~binding_byte.ok THEN binding_byte
  ELSE IF binding_byte.v[1] \notin {0, 1} THEN ReadErr("InvalidData")
  ELSE Read([name |-> name, value |-> value, section |-> section,
             binding |-> IF binding_byte.v[1] = 0 THEN "Local" ELSE "Global"],
            binding_byte.pos)

ReadSymbolBinding(file, name, value, s) ==
  IF ~s.ok THEN s
  ELSE ReadSymbolDone(name, value, Some(s.v), read_exact(file, s.pos, 1))

ReadSymbolSection(file, name, value, section_flag) ==
  IF ~section_flag.ok THEN section_flag
  ELSE IF section_flag.v[1] = 1
  THEN ReadSymbolBinding(file, name, value, ReadString(file, section_flag.pos))
  ELSE ReadSymbolDone(name, value, None, read_exact(file, section_flag.pos, 1))

ReadSymbolFlag(file, name, value) ==
  IF ~value.ok THEN value
  ELSE ReadSymbolSection(file, name, value.v, read_exact(file, value.pos, 1))

ReadSymbolValue(file, name) ==
  IF ~name.ok THEN name
  ELSE ReadSymbolFlag(file, name.v, ReadU32(file, name.pos))

ReadSymbol(file, pos) == ReadSymbolValue(file, ReadString(file, pos))

\* a relocation record: offset, symbol, addend, section
ReadRelocationDone(offset, symbol, addend, section) ==
  IF ~section.ok THEN section
  ELSE Read([offset |-> offset, symbol |-> symbol, addend |-> addend,
             section |-> section.v], section.pos)

ReadRelocationSection(file, offset, symbol, addend) ==
  IF ~addend.ok THEN addend
  ELSE ReadRelocationDone(offset, symbol, addend.v, ReadString(file, addend.pos))

ReadRelocationAddend(file, offset, symbol) ==
  IF ~symbol.ok THEN symbol
  ELSE ReadRelocationSection(file, offset, symbol.v, ReadI32(file, symbol.pos))

ReadRelocationSymbol(file, offset) ==
  IF ~offset.ok THEN offset
  ELSE ReadRelocationAddend(file, offset.v, ReadString(file, offset.pos))

ReadRelocation(file, pos) == ReadRelocationSymbol(file, ReadU32(file, pos))

ReadRecord(kind, file, pos) ==
  CASE kind = "section" -> ReadSection(file, pos)
    [] kind = "symbol" -> ReadSymbol(file, pos)
    [] kind = "relocation" -> ReadRelocation(file, pos)

RECURSIVE ReadRecords(_, _, _, _, _)
\* one iteration of the loop `for _ in 0..count`: push the record r
PushRecord(kind, file, count, acc, r) ==
  IF ~r.ok THEN r ELSE ReadRecords(kind, file, r.pos, count - 1, Append(acc, r.v))

\* the loop `for _ in 0..count` that pushes one record per iteration
ReadRecords(kind, file, pos, count, acc) ==
  IF count = 0 THEN Read(acc, pos)
  ELSE PushRecord(kind, file, count, acc, ReadRecord(kind, file, pos))

\* from_file after the header: the three record lists, in file order
FromRelocations(version, sections, symbols, relocations) ==
  IF ~relocations.ok THEN Err(relocations.v)
  ELSE Ok([sections |-> sections, symbols |-> symbols,
           relocations |-> relocations.v, version |-> version])

FromSymbols(file, version, relocation_count, sections, symbols) ==
  IF ~symbols.ok THEN Err(symbols.v)
  ELSE FromRelocations(version, sections, symbols.v,
         ReadRecords("relocation", file, symbols.pos, relocation_count, <<>>))

FromSections(file, version, symbol_count, relocation_count, sections) ==
  IF ~sections.ok THEN Err(sections.v)
  ELSE FromSymbols(file, version, relocation_count, sections.v,
         ReadRecords("symbol", file, sections.pos, symbol_count, <<>>))

FromCounts(file, version, section_count, symbol_count, relocation_count) ==
  IF ~version.ok THEN Err(version.v)
  ELSE IF ~section_count.ok THEN Err(section_count.v)
  ELSE IF ~symbol_count.ok THEN Err(symbol_count.v)
  ELSE IF ~relocation_count.ok THEN Err(relocation_count.v)
  ELSE FromSections(file, version.v, symbol_count.v, relocation_count.v,
         ReadRecords("section", file, 20, section_count.v, <<>>))

FromMagic(file, magic) ==
  IF ~magic.ok THEN Err(magic.v)
  ELSE IF magic.v # MAGIC THEN Err("InvalidData")
  ELSE FromCounts(file, ReadU32(file, 4), ReadU32(file, 8), ReadU32(file, 12),
                  ReadU32(file, 16))

\* from_file on the bytes of a file
from_file(file) == FromMagic(file, read_exact(file, 0, 4))

(***************************************************************************)
(* Lexer: Lexer::next                                                      *)
(* The source is the sequence of its characters.                           *)
(***************************************************************************)

\* Lexer::new
LexerNew(text) ==
  [src |-> text, pos |-> 0, line |-> 1, eof_reached |-> FALSE, last_was_newline |-> FALSE]

\* the character peek() returns at the position, "" at the end of the source
CharAt(text, pos) == IF pos < Len(text) THEN text[pos + 1] ELSE ""

RECURSIVE SkipComment(_, _)
\* the position of the line feed that ends the comment, or the end
SkipComment(text, pos) ==
  IF CharAt(text, pos) \in {"", "\n"} THEN pos ELSE SkipComment(text, pos + 1)

RECURSIVE SkipFrom(_, _)
SkipFrom(text, pos) ==
  IF CharAt(text, pos) \in {" ", "\t"} THEN SkipFrom(text, pos + 1)
  ELSE IF CharAt(text, pos) = ";" THEN SkipComment(text, pos)
  ELSE pos

\* Lexer::skip: blanks, then at most one comment up to its line feed
skip(lx) == [lx EXCEPT !.pos = SkipFrom(lx.src, lx.pos)]

RECURSIVE SkipNewlines(_)
\* `while let Some('\n') = self.peek() { advance(1); line += 1 }`
SkipNewlines(lx) ==
  IF CharAt(lx.src, lx.pos) = "\n"
  THEN SkipNewlines([lx EXCEPT !.pos = @ + 1, !.line = @ + 1])
  ELSE lx

is_whitespace(c) == c \in {" ", "\t", "\n"}

is_punctuation(c) == c \in {",", "@", "\n", "(", ")", "[", "]"}

RECURSIVE WordEnd(_, _)
\* Lexer::get_word: the position after the word that starts at pos
WordEnd(text, pos) ==
  IF CharAt(text, pos) = "" \/ is_whitespace(CharAt(text, pos))
       \/ is_punctuation(CharAt(text, pos))
  THEN pos ELSE WordEnd(text, pos + 1)

\* Directive::from_str
DirectiveNames ==
  {<<"g", "l", "o", "b", "a", "l">>, <<"e", "x", "p", "o", "r", "t">>,
   <<"i", "m", "p", "o", "r", "t">>, <<"i", "m", "m">>, <<"t", "e", "x", "t">>,
   <<"d", "a", "t", "a">>, <<"b", "s", "s">>, <<"s", "e", "c", "t", "i", "o", "n">>,
   <<"b", "y", "t", "e">>, <<"w", "o", "r", "d">>, <<"a", "s", "c", "i", "i">>}

RECURSIVE DigitsValue(_, _)
\* the value of a non-empty string of digits of the radix, -1 otherwise
DigitsValue(chars, radix) ==
  IF chars = <<>> THEN -1
  ELSE IF DigitValue(chars[Len(chars)]) \notin 0..(radix - 1) THEN -1
  ELSE IF Len(chars) = 1 THEN DigitValue(chars[1])
  ELSE LET high == DigitsValue(SubSeq(chars, 1, Len(chars) - 1), radix)
       IN  IF high < 0 THEN -1 ELSE high * radix + DigitValue(chars[Len(chars)])

\* str::parse::<i32> and i32::from_str_radix: an optional sign, then digits
ParseI32(chars, radix) ==
  LET signed == chars # <<>> /\ chars[1] \in {"+", "-"}
      value == DigitsValue(IF signed THEN Tail(chars) ELSE chars, radix)
  IN  IF value < 0 THEN Err("ParseIntError")
      ELSE Ok(IF signed /\ chars[1] = "-" THEN 0 - value ELSE value)

\* str::parse::<u8>: an optional plus sign, then digits, at most 255
ParseU8(chars) ==
  LET value == DigitsValue(IF chars # <<>> /\ chars[1] = "+" THEN Tail(chars) ELSE chars, 10)
  IN  IF value < 0 \/ value > 255 THEN Err("ParseIntError") ELSE Ok(value)

\* Lexer::check_for_number: None, or the result of the parse
check_for_number(word) ==
  IF Len(word) >= 2 /\ word[1] = "0" /\ word[2] \in {"x", "b", "o"}
  THEN Some(ParseI32(SubSeq(word, 3, Len(word)),
                     CASE word[2] = "x" -> 16 [] word[2] = "b" -> 2 [] word[2] = "o" -> 8))
  ELSE IF ParseI32(word, 10).ok THEN Some(ParseI32(word, 10)) ELSE None

\* what next() returns: a token, an error, or None
LexToken(t) == [k |-> "Token", t |-> t]

LexErr(e) == [k |-> "Err", t |-> e]

LexNone == [k |-> "None", t |-> "None"]

\* the arms of next() for the word between start and the position of lx: the
\* result, and whether the arm clears last_was_newline
ClassifyWord(word) ==
  IF word[1] = "."
  THEN IF Tail(word) \in DirectiveNames
       THEN [result |-> LexToken("Directive"), clears |-> TRUE]
       ELSE [result |-> LexErr("InvalidDirective"), clears |-> FALSE]
  ELSE IF word[1] = "r" /\ ParseU8(Tail(word)).ok /\ ParseU8(Tail(word)).v <= 15
  THEN [result |-> LexToken("Register"), clears |-> TRUE]
  ELSE IF word \in {<<"t", "r">>, <<"s", "p">>, <<"p", "c">>}
  THEN [result |-> LexToken("Register"), clears |-> TRUE]
  ELSE IF check_for_number(word) # None
  THEN [result |-> IF check_for_number(word)[1].ok THEN LexToken("Immediate")
                   ELSE LexErr("InvalidNumber"),
        clears |-> TRUE]
  ELSE IF word[Len(word)] = ":"
  THEN IF Len(word) = 1
       THEN [result |-> LexErr("InvalidCharacter"), clears |-> FALSE]
       ELSE [result |-> LexToken("LabelDef"), clears |-> TRUE]
  ELSE [result |-> LexToken("MnemonicOrLabelRef"), clears |-> TRUE]

\* a NewLine arm that does not record that it returned a NewLine
EmitNewLineUnrecorded(lx) ==
  [lexer |-> [lx EXCEPT !.pos = @ + 1, !.line = @ + 1], result |-> LexToken("NewLine")]

\* the arm of next() that returns a NewLine token
EmitNewLine(lx) ==
  [lexer |-> [lx EXCEPT !.pos = @ + 1, !.line = @ + 1, !.last_was_newline = TRUE],
   result |-> LexToken("NewLine")]

RECURSIVE next(_)
\* Lexer::next: the lexer after the call and what the call returns
next(lx) ==
  IF lx.eof_reached THEN [lexer |-> lx, result |-> LexNone]
  ELSE
    LET s == skip(lx)
        c == CharAt(s.src, s.pos)
        end == WordEnd(s.src, s.pos)
        w == ClassifyWord(SubSeq(s.src, s.pos + 1, end))
    IN  IF s.pos >= Len(s.src)
        THEN [lexer |-> [s EXCEPT !.eof_reached = TRUE], result |-> LexToken("EoF")]
        ELSE IF c = "\n"
        THEN IF s.last_was_newline THEN next(skip(SkipNewlines(s)))
             ELSE EmitNewLine(s)
        ELSE IF c \in {",", "@", "(", ")", "[", "]"}
        THEN [lexer |-> [s EXCEPT !.pos = @ + 1, !.last_was_newline = FALSE],
              result |-> LexToken("Punctuation")]
        ELSE [lexer |-> [s EXCEPT !.pos = end,
                                  !.last_was_newline = IF w.clears THEN FALSE ELSE @],
              result |-> w.result]

(***************************************************************************)
(* Simulator: Atlas8Core                                                   *)
(* regs[r + 1] is register r.  The bus is the environment: what it returns *)
(* for a fetch or a load is an input of tick.  pc is a u64; a negative     *)
(* value v of the model stands for 2^64 + v.                               *)
(***************************************************************************)

\* the `^` operator on unsigned integers
BitXor(a, b) == BitOr(a, b) - BitAnd(a, b)

\* Atlas8Core::new
CoreNew ==
  [regs |-> [r \in 1..16 |-> 0], pc |-> 0,
   sr |-> [zero |-> FALSE, carry |-> FALSE, negative |-> FALSE, overflow |-> FALSE],
   halted |-> FALSE, supervisor |-> TRUE, panicked |-> FALSE]

reg(c, r) == IF r = 0 THEN 0 ELSE c.regs[r + 1]

set_reg(c, r, val) == IF r # 0 THEN [c EXCEPT !.regs[r + 1] = val] ELSE c

reg_pair(c, hi, lo) == BitOr(Shl16(c.regs[hi + 1], 8), c.regs[lo + 1])

set_reg_pair(c, hi, lo, val) ==
  [c EXCEPT !.regs[hi + 1] = AsU8(Shr(val, 8)), !.regs[lo + 1] = BitAnd(val, 255)]

sp(c) == reg_pair(c, 12, 13)

set_sp(c, val) == set_reg_pair(c, 12, 13, val)

sync_pc_to_regs(c) ==
  [c EXCEPT !.regs[15] = AsU8(Shr(AsU16(c.pc), 8)), !.regs[16] = BitAnd(AsU16(c.pc), 255)]

set_zn(c, result) ==
  [c EXCEPT !.sr.zero = (result = 0), !.sr.negative = (BitAnd(result, 128) # 0)]

set_flags_add(c, a, b, result) ==
  [set_zn(c, AsU8(result)) EXCEPT
     !.sr.carry = (result > 255),
     !.sr.overflow =
        (BitAnd(BitAnd(BitXor(a, AsU8(result)), BitXor(b, AsU8(result))), 128) # 0)]

set_flags_sub(c, a, b, result) ==
  [set_zn(c, AsU8(result)) EXCEPT
     !.sr.carry = (BitAnd(result, 256) # 0),
     !.sr.overflow = (BitAnd(BitAnd(BitXor(a, b), BitXor(a, AsU8(result))), 128) # 0)]

\* BranchCond: Unconditional 0, EQ 1, NE 2, CS 3, CC 4, MI 5, PL 6, OV 7
condition_met(c, cond) ==
  CASE cond = 0 -> TRUE
    [] cond = 1 -> c.sr.zero
    [] cond = 2 -> ~c.sr.zero
    [] cond = 3 -> c.sr.carry
    [] cond = 4 -> ~c.sr.carry
    [] cond = 5 -> c.sr.negative
    [] cond = 6 -> ~c.sr.negative
    [] cond = 7 -> c.sr.overflow

\* the A-type arm; checked tells whether the build panics on the overflow of
\* the negation of 0x80
ExecuteA(c, op, dest, source, checked) ==
  LET d == reg(c, dest)
      s == reg(c, source)
      carry == BoolBit(c.sr.carry)
  IN  CASE op = 0 -> set_reg(set_flags_add(c, d, s, d + s), dest, AsU8(d + s))
        [] op = 1 ->
             set_reg(set_flags_add(c, d, s, d + s + carry), dest, AsU8(d + s + carry))
        [] op = 2 -> set_reg(set_flags_sub(c, d, s, AsU16(d - s)), dest, AsU8(d - s))
        [] op = 3 ->
             set_reg(set_flags_sub(c, d, s, AsU16(d - s - carry)), dest,
                     AsU8(d - s - carry))
        [] op = 4 -> set_reg(set_zn(c, BitAnd(d, s)), dest, BitAnd(d, s))
        [] op = 5 -> set_reg(set_zn(c, BitOr(d, s)), dest, BitOr(d, s))
        [] op = 6 -> set_reg(set_zn(c, BitXor(d, s)), dest, BitXor(d, s))
        [] op = 7 -> set_reg(set_zn(c, 255 - s), dest, 255 - s)
        [] op = 8 ->
             set_reg(set_zn([c EXCEPT !.sr.carry = (BitAnd(s, 128) # 0)], AsU8(s * 2)),
                     dest, AsU8(s * 2))
        [] op = 9 ->
             set_reg(set_zn([c EXCEPT !.sr.carry = (BitAnd(s, 1) # 0)], Shr(s, 1)),
                     dest, Shr(s, 1))
        [] op = 10 ->
             set_reg([set_zn(c, BitOr(AsU8(s * 2), Shr(s, 7)))
                        EXCEPT !.sr.carry = (BitAnd(s, 128) # 0)],
                     dest, BitOr(AsU8(s * 2), Shr(s, 7)))
        [] op = 11 ->
             set_reg([set_zn(c, BitOr(Shr(s, 1), AsU8(s * 128)))
                        EXCEPT !.sr.carry = (BitAnd(s, 1) # 0)],
                     dest, BitOr(Shr(s, 1), AsU8(s * 128)))
        [] op = 12 -> set_flags_sub(c, d, s, AsU16(d - s))
        [] op = 13 -> set_zn(c, BitAnd(d, s))
        [] op = 14 -> set_reg(c, dest, s)
        [] op = 15 ->
             IF d = 128 /\ checked THEN [c EXCEPT !.panicked = TRUE]
             ELSE set_reg([set_zn(c, AsU8(256 - d))
                             EXCEPT !.sr.carry = (d # 0), !.sr.overflow = (d = 128)],
                          dest, AsU8(256 - d))

\* the I-type arm: LDI 0, ADDI 1, SUBI 2, ANDI 3, ORI 4
ExecuteI(c, op, dest, immediate) ==
  LET imm == AsU8(immediate.v)
      d == reg(c, dest)
  IN  CASE op = 0 -> set_reg(c, dest, imm)
        [] op = 1 -> set_reg(set_flags_add(c, d, imm, d + imm), dest, AsU8(d + imm))
        [] op = 2 ->
             set_reg(set_flags_sub(c, d, imm, AsU16(d - imm)), dest, AsU8(d - imm))
        [] op = 3 -> set_reg(set_zn(c, BitAnd(d, imm)), dest, BitAnd(d, imm))
        [] op = 4 -> set_reg(set_zn(c, BitOr(d, imm)), dest, BitOr(d, imm))

\* the sign of an 8-bit and of a 16-bit value (`as i8`, `as i16`)
AsI8(v) == IF v >= 128 THEN v - 256 ELSE v

AsI16(v) == IF v >= 32768 THEN v - 65536 ELSE v

\* the BI-type and BR-type arms: the target or the offset is val
ExecuteBranch(c, absolute, cond, val, offset) ==
  IF condition_met(c, cond)
  THEN sync_pc_to_regs([c EXCEPT !.pc = IF absolute THEN val ELSE c.pc + offset])
  ELSE c

\* the S-type arm; loaded is the byte the bus returns for a read
ExecuteS(c, op, operand, loaded) ==
  CASE op = PUSH -> set_sp(c, AsU16(sp(c) - 1))
    [] op = POP -> set_reg(set_sp(c, AsU16(sp(c) + 1)), BitAnd(operand, 15), loaded)
    [] op = SUBSP_IMM -> set_sp(c, AsU16(sp(c) - operand))
    [] op = SUBSP_REG -> set_sp(c, AsU16(sp(c) - reg(c, BitAnd(operand, 15))))
    [] op = ADDSP_IMM -> set_sp(c, AsU16(sp(c) + operand))
    [] op = ADDSP_REG -> set_sp(c, AsU16(sp(c) + reg(c, BitAnd(operand, 15))))

\* Atlas8Core::execute_instruction; stores go to the bus
execute_instruction(c, inst, loaded, checked) ==
  CASE inst.fmt = "A" -> ExecuteA(c, inst.op, inst.dest, inst.source, checked)
    [] inst.fmt = "I" -> ExecuteI(c, inst.op, inst.dest, inst.immediate)
    [] inst.fmt = "M" -> IF inst.op = LD THEN set_reg(c, inst.dest, loaded) ELSE c
    [] inst.fmt = "BI" ->
         ExecuteBranch(c, inst.absolute, inst.cond, inst.operand.v,
                       AsI8(AsU8(inst.operand.v)))
    [] inst.fmt = "BR" ->
         ExecuteBranch(c, inst.absolute, inst.cond,
                       reg_pair(c, inst.source.high, inst.source.low),
                       AsI16(reg_pair(c, inst.source.high, inst.source.low)))
    [] inst.fmt = "S" -> ExecuteS(c, inst.op, inst.operand, loaded)
    [] inst.fmt = "P" -> IF inst.op = PEEK THEN set_reg(c, inst.register, loaded) ELSE c
    [] inst.fmt = "X" -> IF inst.op = HALT THEN [c EXCEPT !.halted = TRUE] ELSE c

\* Atlas8Core::tick: inst_bytes is what the bus returns for the fetch
tick(c, inst_bytes, loaded, checked) ==
  IF c.halted THEN c
  ELSE LET fetched == sync_pc_to_regs([c EXCEPT !.pc = @ + 2])
           inst == decode(AsU16(inst_bytes))
       IN  IF ~inst.ok THEN [fetched EXCEPT !.panicked = TRUE]
           ELSE execute_instruction(fetched, inst.v, loaded, checked)

(***************************************************************************)
(* State                                                                   *)
(***************************************************************************)

VARIABLES
  src,      \* the logical lines of the current source the parser has consumed
  parser,   \* the Parser: pos, current_section and the symbol table
  items,    \* the items assemble has collected in pass 1
  asm,      \* "parsing", "ok" once the object is written, else the error
  srcs,     \* the sources assembled so far, in order
  objs,     \* the object files written so far, in order
  rerun,    \* the result of assembling the current source once more
  lnk,      \* the linker: status, merged sections, bases, symbol table, image
  cinstr,   \* an instruction handed to the encoder
  cword,    \* the result of encode on it
  cdec,     \* the result of decode on the encoded word
  cre,      \* the result of encode on the decoded instruction
  hexio,    \* the Intel HEX writer and reader: data, base, text, data read back
  ofile,    \* an ObjectFile, the bytes to_file wrote and what from_file read
  lex,      \* the Lexer and the results its next() has returned
  core      \* the Atlas8Core and its memory

vars ==
  <<src, parser, items, asm, srcs, objs, rerun, lnk, cinstr, cword, cdec,
    cre, hexio, ofile, lex, core>>

asmVars == <<src, parser, items, asm, srcs, objs, rerun>>

codecVars == <<cinstr, cword, cdec>>

toolVars == <<cre, hexio, ofile, lex, core>>

\* the assembler and the linker before their first step
AsmIdle ==
  /\ src = <<>>
  /\ parser = ParserNew
  /\ items = <<>>
  /\ asm = "parsing"
  /\ srcs = <<>>
  /\ objs = <<>>
  /\ rerun = <<>>
  /\ lnk = LinkInit

\* no encoder or decoder call yet
CodecIdle ==
  /\ cinstr = InstrA(ADD, 0, 0, 0)
  /\ cword = <<>>
  /\ cdec = <<>>
  /\ cre = <<>>

(***************************************************************************)
(* Bounds and the inputs drawn                                             *)
(***************************************************************************)

\* lines per source in the parser specification
MaxParseLines == 2

\* lines per source in the assembler specification
MaxLines == 4

\* lines per source, and object files, in the linker specification
MaxLinkLines == 3

MaxFiles == 2

R(n) == Register(n)

U(v) == ImmediateTok(v, FALSE)

S(v) == ImmediateTok(v, TRUE)

\* operand lists of zero, one and two tokens
OperandLists ==
  LET T == {R(0), R(1), U(0), U(255), LabelRef("start")}
  IN  {<<>>} \cup {<<a>> : a \in T} \cup {<<a, b>> : a \in T, b \in T}

\* relative and absolute branch operands around the limits of the field
BranchOperands ==
  {<<S(v)>> : v \in {-129, -128, -2, -1, 0, 1, 127, 128}}
    \cup {<<U(v)>> : v \in {0, 255, 256}}

\* M-type operand lists: rd, base, separator, offset
MemOperands ==
  {<<rd, R(2), Sep(c), off>> :
     rd \in {R(0), R(1)}, c \in {",", "+", "-"}, off \in {R(3), U(0), U(5), U(7), U(8)}}

ParseLines ==
  {InstrLine(m, ops) :
     m \in {"add", "cmp", "tst", "mov", "ldi", "addi", "push", "pop", "subsp",
            "addsp", "peek", "poke", "sysc", "halt", "nop", "inc", "dec", "beq"},
     ops \in OperandLists}
    \cup {InstrLine(m, ops) : m \in Range(BranchNames), ops \in BranchOperands}
    \cup {InstrLine(m, ops) : m \in {"ld", "st"}, ops \in MemOperands}

AsmLines ==
  {LabelLine("start"), LabelLine("k"), ImmLine("k", 7), GlobalLine("start"),
   ImportLine("ext"), SectionLine("text"), SectionLine("data"),
   NamedSectionLine(FALSE, "rodata"), ByteLine(<<1>>), WordLine(<<258>>),
   InstrLine("nop", <<>>), InstrLine("ldi", <<R(1), U(1)>>),
   InstrLine("beq", <<LabelRef("start")>>), InstrLine("ldi", <<R(1), LabelRef("ext")>>),
   InstrLine("addi", <<R(0), U(1)>>), InstrLine("ldi", <<R(1), U(256)>>)}

LinkLines ==
  {GlobalLine("inc_r1"), ImportLine("inc_r1"), LabelLine("inc_r1"),
   ImmLine("inc_r1", 1), LabelLine("k"),
   InstrLine("addi", <<R(1), U(1)>>), InstrLine("beq", <<LabelRef("inc_r1")>>)}

\* lines of sources whose references the linker has to patch
RelocLines ==
  {GlobalLine("k"), LabelLine("k"), ImmLine("k", 255), ImmLine("k", 256),
   SectionLine("data"), InstrLine("ldi", <<R(1), LabelRef("k")>>),
   InstrLine("beq", <<LabelRef("ext")>>)}

Regs == {0, 1, 15}

Imms == {0, 1, 255}

Operands == {Immediate(v) : v \in Imms}

\* instructions with resolved, in-range operands, of every variant
CodecInstrs ==
  {InstrA(op, d, s0, 0) : op \in 0..15, d \in Regs, s0 \in Regs}
    \cup {InstrI(op, d, o, 0) : op \in 0..4, d \in Regs, o \in Operands}
    \cup {InstrM(op, d, b, o, 0) : op \in 0..1, d \in Regs, b \in Regs,
            o \in {Offset8(v) : v \in {0, 7, 15}} \cup {SR(r) : r \in Regs}}
    \cup {InstrBI(a, c, o, 0) : a \in BOOLEAN, c \in 0..7, o \in Operands}
    \cup {InstrBR(a, c, h, l, 0) : a \in BOOLEAN, c \in 0..7, h \in Regs, l \in Regs}
    \cup {InstrS(op, v, 0) : op \in 0..5, v \in Imms}
    \cup {InstrP(op, r, o, 0) : op \in 0..1, r \in Regs, o \in Operands}
    \cup {InstrX(op, o, 0) : op \in 0..6,
            o \in {XNone} \cup {XImmediate(v) : v \in Imms}
                  \cup {XRegister(r) : r \in Regs}
                  \cup {XRegisters(a, b) : a \in Regs, b \in Regs}}

\* I, BI and P instructions whose operand is a label or exceeds 8 bits
UnencodableInstrs ==
  LET Bad == {Label("start"), Immediate(256), Immediate(65535)}
  IN  {InstrI(op, d, o, 0) : op \in 0..4, d \in Regs, o \in Bad}
        \cup {InstrBI(a, c, o, 0) : a \in BOOLEAN, c \in 0..7, o \in Bad}
        \cup {InstrP(op, r, o, 0) : op \in 0..1, r \in Regs, o \in Bad}

\* longest of the short byte sequences given to to_ihex
MaxHexLen == 33

\* the bytes seed, seed + step, seed + 2 * step, ... mod 256
Fill(len, seed, step) == [i \in 1..len |-> (seed + step * (i - 1)) % 256]

\* data and base addresses for to_ihex: every short length at four bases, and
\* at base 0 the lengths around the 64 KiB address space
HexInputs ==
  {[data |-> Fill(len, sd[1], sd[2]), base |-> b] :
     len \in 0..MaxHexLen, sd \in {<<0, 1>>, <<255, 0>>, <<200, 37>>},
     b \in {0, 16, 65520, 65535}}
    \cup {[data |-> Fill(len, 3, 7), base |-> 0] : len \in {65535, 65536, 65537}}

\* records per list of an ObjectFile given to to_file
MaxRecords == 2

\* every sequence of at most MaxRecords elements of the set
SeqsUpTo(set) == UNION {[1..n -> set] : n \in 0..MaxRecords}

\* ObjectFile values: names of zero, one and five bytes, 32-bit values up to
\* 2^31 - 1, symbols with and without a section and of either binding,
\* addends down to -2^31
ObjectFiles ==
  LET text == <<46, 116, 101, 120, 116>>
      k == <<107>>
      SectionSet == {[name |-> text, start |-> 0, data |-> <<17, 0, 255>>],
                     [name |-> <<>>, start |-> 2147483647, data |-> <<>>]}
      SymbolSet == {[name |-> k, value |-> 65536, section |-> Some(text), binding |-> "Local"],
                    [name |-> k, value |-> 2, section |-> Some(<<>>), binding |-> "Global"],
                    [name |-> <<>>, value |-> 0, section |-> None, binding |-> "Local"],
                    [name |-> text, value |-> 0, section |-> None, binding |-> "Global"]}
      RelocationSet == {[offset |-> 258, symbol |-> k, addend |-> a, section |-> text] :
                          a \in {-2147483647 - 1, -1, 0, 2147483647}}
  IN  {[sections |-> s, symbols |-> y, relocations |-> r, version |-> v] :
         s \in SeqsUpTo(SectionSet), y \in SeqsUpTo(SymbolSet),
         r \in SeqsUpTo(RelocationSet), v \in {0, 1, 2147483647}}

\* pieces per source text given to the lexer
MaxPieces == 4

\* calls of next() after the one that returned None
MaxNoneCalls == 2

\* a line feed, a blank, a comment, a comma, a directive, an unknown
\* directive, a label definition, a lone colon, a number, a hex prefix
\* without digits, and a word
Pieces ==
  {<<"\n">>, <<" ">>, <<";", "c">>, <<",">>, <<".", "b", "s", "s">>, <<".", "x">>,
   <<"x", ":">>, <<":">>, <<"7">>, <<"0", "x">>, <<"x">>}

RECURSIVE Flatten(_)
Flatten(pieces) == IF pieces = <<>> THEN <<>> ELSE Head(pieces) \o Flatten(Tail(pieces))

\* the source texts: every concatenation of at most MaxPieces pieces
LexSources == {Flatten(p) : p \in UNION {[1..n -> Pieces] : n \in 0..MaxPieces}}

\* the core is clocked while its pc is at most MaxPc and its stack pointer
\* has moved at most MaxSp bytes from 0
MaxPc == 6

MaxSp == 2

\* the words the bus returns for a fetch: nop, ldi r1 0x80, ldi r1 0xFF,
\* ldi r14 1, ldi r15 5, addi r1 64, mov r15 r1, neg r1, cmp r1 r1, beq 4,
\* b -2, b -128, br r1:r2, pop r14, push r1, halt, an undefined word,
\* ld r1 [r2, 0], st r1 [r2, 0], peek r1 0, poke r1 0, addsp 1, subsp r1
FetchedWords ==
  {0, 4480, 4607, 7681, 7941, 8512, 3870, 271, 284, 35076, 33022, 32896,
   38945, 41230, 40961, 53760, 57344,
   24864, 28960, 45312, 49408, 41985, 41729}

\* the bytes the bus returns for a load
LoadedBytes == {0, 255}

(***************************************************************************)
(* Initial states                                                          *)
(***************************************************************************)

Init ==
  /\ src = <<>>
  /\ parser = ParserNew
  /\ items = <<>>
  /\ asm = "parsing"
  /\ srcs = <<>>
  /\ objs = <<>>
  /\ rerun = <<>>
  /\ lnk = LinkInit
  /\ cinstr = InstrA(ADD, 0, 0, 0)
  /\ cword = <<>>
  /\ cdec = <<>>
  /\ cre = <<>>
  /\ hexio = <<>>
  /\ ofile = <<>>
  /\ lex = <<>>
  /\ core = <<>>

InitCodec ==
  /\ src = <<>>
  /\ parser = ParserNew
  /\ items = <<>>
  /\ asm = "parsing"
  /\ srcs = <<>>
  /\ objs = <<>>
  /\ rerun = <<>>
  /\ lnk = LinkInit
  /\ cinstr \in CodecInstrs
  /\ cword = <<>>
  /\ cdec = <<>>
  /\ cre = <<>>
  /\ hexio = <<>>
  /\ ofile = <<>>
  /\ lex = <<>>
  /\ core = <<>>

InitEncoder ==
  /\ src = <<>>
  /\ parser = ParserNew
  /\ items = <<>>
  /\ asm = "parsing"
  /\ srcs = <<>>
  /\ objs = <<>>
  /\ rerun = <<>>
  /\ lnk = LinkInit
  /\ cinstr \in CodecInstrs \cup UnencodableInstrs
  /\ cword = <<>>
  /\ cdec = <<>>
  /\ cre = <<>>
  /\ hexio = <<>>
  /\ ofile = <<>>
  /\ lex = <<>>
  /\ core = <<>>

\* every value of the u16 argument of decode
Words == 0..65535

InitDecoder ==
  /\ AsmIdle
  /\ cinstr = InstrA(ADD, 0, 0, 0)
  /\ cword \in {<<Ok(w)>> : w \in Words}
  /\ cdec = <<>>
  /\ cre = <<>>
  /\ hexio = <<>>
  /\ ofile = <<>>
  /\ lex = <<>>
  /\ core = <<>>

InitHex ==
  /\ AsmIdle
  /\ CodecIdle
  /\ hexio \in {[data |-> in.data, base |-> in.base, text |-> <<>>, back |-> <<>>] :
                  in \in HexInputs}
  /\ ofile = <<>>
  /\ lex = <<>>
  /\ core = <<>>

InitObj ==
  /\ AsmIdle
  /\ CodecIdle
  /\ hexio = <<>>
  /\ ofile \in {[obj |-> o, bytes |-> <<>>, back |-> <<>>] : o \in ObjectFiles}
  /\ lex = <<>>
  /\ core = <<>>

InitLex ==
  /\ AsmIdle
  /\ CodecIdle
  /\ hexio = <<>>
  /\ ofile = <<>>
  /\ lex \in {[lexer |-> LexerNew(text), out |-> <<>>] : text \in LexSources}
  /\ core = <<>>

InitCore ==
  /\ AsmIdle
  /\ CodecIdle
  /\ hexio = <<>>
  /\ ofile = <<>>
  /\ lex = <<>>
  /\ core = CoreNew

(***************************************************************************)
(* Actions                                                                 *)
(***************************************************************************)

\* ParsedInstruction::encode on the instruction
Encode ==
  /\ cword = <<>>
  /\ cword' = <<encode(cinstr)>>
  /\ UNCHANGED <<cinstr, cdec, asmVars, lnk, toolVars>>

\* ParsedInstruction::decode on the word encode returned
Decode ==
  /\ cword # <<>>
  /\ cword[1].ok
  /\ cdec = <<>>
  /\ cdec' = <<decode(cword[1].v)>>
  /\ UNCHANGED <<cinstr, cword, asmVars, lnk, toolVars>>

\* Parser::next on one more logical line, called from the pass-1 loop of
\* assemble; an error ends assemble before anything is written
ParserNext(line) ==
  /\ asm = "parsing"
  /\ LET r == ParseLine(parser, line, Len(src) + 1)
     IN  /\ src' = Append(src, line)
         /\ parser' = r.parser
         /\ items' = items \o r.item
         /\ asm' = IF r.err = "none" THEN "parsing" ELSE r.err
  /\ UNCHANGED <<srcs, objs, rerun, lnk, codecVars, toolVars>>

\* a back-end that writes the object before it validates the exports
AssembleBackEndWritesFirst ==
  /\ asm = "parsing"
  /\ \E sym_order \in Orders(DOMAIN parser.symbols), imp_order \in Orders(parser.imports) :
       LET r == BackEnd(parser, items, sym_order, imp_order)
           w == BackEndNoValidation(parser, items, sym_order, imp_order)
       IN  /\ asm' = IF r.ok THEN "ok" ELSE r.err
           /\ objs' = IF w.ok THEN Append(objs, w.v) ELSE objs
           /\ srcs' = IF w.ok THEN Append(srcs, src) ELSE srcs
  /\ UNCHANGED <<src, parser, items, rerun, lnk, codecVars, toolVars>>

\* the parser reaches the end of the source: the rest of assemble
AssembleBackEnd ==
  /\ asm = "parsing"
  /\ \E sym_order \in Orders(DOMAIN parser.symbols), imp_order \in Orders(parser.imports) :
       LET r == BackEnd(parser, items, sym_order, imp_order)
       IN  /\ asm' = IF r.ok THEN "ok" ELSE r.err
           /\ objs' = IF r.ok THEN Append(objs, r.v) ELSE objs
           /\ srcs' = IF r.ok THEN Append(srcs, src) ELSE srcs
  /\ UNCHANGED <<src, parser, items, rerun, lnk, codecVars, toolVars>>

\* assemble run once more on the same source
Reassemble ==
  /\ asm = "ok"
  /\ rerun = <<>>
  /\ \E sym_order \in Orders(DOMAIN parser.symbols), imp_order \in Orders(parser.imports) :
       rerun' = <<assemble(src, sym_order, imp_order)>>
  /\ UNCHANGED <<src, parser, items, asm, srcs, objs, lnk, codecVars, toolVars>>

\* assemble is started on the next source file
NewFile ==
  /\ asm # "parsing"
  /\ Len(objs) < MaxFiles
  /\ lnk.status = "idle"
  /\ src' = <<>>
  /\ parser' = ParserNew
  /\ items' = <<>>
  /\ asm' = "parsing"
  /\ rerun' = <<>>
  /\ UNCHANGED <<srcs, objs, lnk, codecVars, toolVars>>

\* link on the object files written so far, in the order they were written
Link ==
  /\ asm # "parsing"
  /\ objs # <<>>
  /\ lnk.status = "idle"
  /\ lnk' = link(objs)
  /\ UNCHANGED <<asmVars, codecVars, toolVars>>

\* ParsedInstruction::encode on the instruction decode returned
Reencode ==
  /\ cdec # <<>>
  /\ cdec[1].ok
  /\ cre = <<>>
  /\ cre' = <<encode(cdec[1].v)>>
  /\ UNCHANGED <<asmVars, lnk, codecVars, hexio, ofile, lex, core>>

\* to_ihex on the data and the base address
ToIhex ==
  /\ hexio.text = <<>>
  /\ hexio' = [hexio EXCEPT !.text = <<to_ihex(hexio.data, hexio.base)>>]
  /\ UNCHANGED <<asmVars, lnk, codecVars, cre, ofile, lex, core>>

\* from_ihex on the text to_ihex returned
FromIhex ==
  /\ hexio.text # <<>>
  /\ hexio.back = <<>>
  /\ hexio' = [hexio EXCEPT !.back = <<from_ihex(hexio.text[1])>>]
  /\ UNCHANGED <<asmVars, lnk, codecVars, cre, ofile, lex, core>>

\* to_file on the object
ToFile ==
  /\ ofile.bytes = <<>>
  /\ ofile' = [ofile EXCEPT !.bytes = <<to_file(ofile.obj)>>]
  /\ UNCHANGED <<asmVars, lnk, codecVars, cre, hexio, lex, core>>

\* from_file on the file to_file wrote
FromFile ==
  /\ ofile.bytes # <<>>
  /\ ofile.back = <<>>
  /\ ofile' = [ofile EXCEPT !.back = <<from_file(ofile.bytes[1])>>]
  /\ UNCHANGED <<asmVars, lnk, codecVars, cre, hexio, lex, core>>

\* one call of Lexer::next; out collects what the calls return
LexNext ==
  /\ Cardinality({i \in DOMAIN lex.out : lex.out[i] = LexNone}) < MaxNoneCalls
  /\ lex' = [lexer |-> next(lex.lexer).lexer,
             out |-> Append(lex.out, next(lex.lexer).result)]
  /\ UNCHANGED <<asmVars, lnk, codecVars, cre, hexio, ofile, core>>

\* one tick of the core on what the bus returns
Tick ==
  /\ ~core.panicked
  /\ ~core.halted
  /\ core.pc \in 0..MaxPc
  /\ AsU16(sp(core) + MaxSp) <= 2 * MaxSp
  /\ \E inst_bytes \in FetchedWords, loaded \in LoadedBytes, checked \in BOOLEAN :
       core' = tick(core, inst_bytes, loaded, checked)
  /\ UNCHANGED <<asmVars, lnk, codecVars, cre, hexio, ofile, lex>>

(***************************************************************************)
(* Specifications                                                          *)
(***************************************************************************)

NextCodec == Encode \/ Decode

\* the encoder and the decoder on one instruction
SpecCodec == InitCodec /\ [][NextCodec]_vars

NextParse ==
  \/ \E line \in ParseLines : Len(src) < MaxParseLines /\ ParserNext(line)
  \/ AssembleBackEnd

\* assemble on sources of instruction lines
SpecParse == Init /\ [][NextParse]_vars

Next ==
  \/ \E line \in AsmLines : Len(src) < MaxLines /\ ParserNext(line)
  \/ AssembleBackEnd
  \/ Reassemble

\* assemble on one source of labels, directives and instructions
Spec == Init /\ [][Next]_vars

NextLink ==
  \/ \E line \in LinkLines : Len(src) < MaxLinkLines /\ ParserNext(line)
  \/ AssembleBackEnd
  \/ NewFile
  \/ Link

\* assemble on up to MaxFiles sources, then link on the objects
SpecLink == Init /\ [][NextLink]_vars

\* the encoder on instructions it accepts and instructions it rejects
SpecEncoder == InitEncoder /\ [][NextCodec]_vars

NextReloc ==
  \/ \E line \in RelocLines : Len(src) < MaxLinkLines /\ ParserNext(line)
  \/ AssembleBackEnd
  \/ NewFile
  \/ Link

\* assemble on sources that refer to symbols, then link on the objects
SpecReloc == Init /\ [][NextReloc]_vars

NextDecoder == Decode \/ Reencode

\* the decoder on one word, then the encoder on the instruction it returned
SpecDecoder == InitDecoder /\ [][NextDecoder]_vars

NextHex == ToIhex \/ FromIhex

\* to_ihex on a byte sequence, then from_ihex on the text
SpecHex == InitHex /\ [][NextHex]_vars

NextObj == ToFile \/ FromFile

\* to_file on an ObjectFile, then from_file on the file
SpecObj == InitObj /\ [][NextObj]_vars

\* the lexer on a source text, call by call
SpecLex == InitLex /\ [][LexNext]_vars

\* the core clocked on any instruction sequence
SpecCore == InitCore /\ [][Tick]_vars

(***************************************************************************)
(* Properties                                                              *)
(***************************************************************************)

\* erasure of the diagnostic fields of an instruction
EraseLine(x) == [x EXCEPT !.line = 0]

\* C1: for every instruction of every variant whose operands are resolved
\* and in range, encode succeeds and decode(encode(x)) equals x up to the
\* line and source file
C1_RoundTrip ==
  /\ cword # <<>> => cword[1].ok
  /\ cdec # <<>> => cdec[1].ok /\ EraseLine(cdec[1].v) = EraseLine(cinstr)

\* the object file the last successful assemble wrote
LastObj == objs[Len(objs)]

\* the data of the named section of an object, empty when there is none
SectionData(obj, name) ==
  IF \E i \in DOMAIN obj.sections : obj.sections[i].name = name
  THEN obj.sections[CHOOSE i \in DOMAIN obj.sections : obj.sections[i].name = name].data
  ELSE <<>>

ParsedInstrs == {items[i].instr : i \in {j \in DOMAIN items : items[j].k = "Instruction"}}

\* the instruction was produced from the virtual mnemonic nop
FromNop(x) == x.op = ADD /\ x.source = 0 /\ src[x.line].m = "nop"

R0Protected(x) ==
  /\ x.fmt = "I" => x.dest # 0
  /\ x.fmt = "M" /\ x.op = LD => x.dest # 0
  /\ x.fmt = "P" /\ x.op = PEEK => x.register # 0
  /\ x.fmt = "S" /\ x.op = POP => x.operand # 0

\* C2 as stated: no parsed A-type has dest 0 unless its op is CMP or TST, and
\* no I-type, LD, PEEK or POP has destination register 0, expansions of the
\* virtual mnemonics included
C2_Original ==
  \A x \in ParsedInstrs :
    /\ x.fmt = "A" /\ x.dest = 0 => x.op \in {CMP, TST}
    /\ R0Protected(x)

\* C2 as amended: no parsed A-type has dest 0 unless its op is CMP or TST or
\* it is the expansion of nop (ADD r0, r0); no I-type (inc and dec included),
\* LD, PEEK or POP has destination register 0
C2_R0WriteProtection ==
  \A x \in ParsedInstrs :
    /\ x.fmt = "A" /\ x.dest = 0 => x.op \in {CMP, TST} \/ FromNop(x)
    /\ R0Protected(x)

\* a nop and a flag-only compare against r0 were both parsed, and the parser
\* has rejected nothing
C2_Witness ==
  /\ asm = "parsing"
  /\ \E x \in ParsedInstrs : x.fmt = "A" /\ x.dest = 0 /\ x.op = CMP
  /\ \E x \in ParsedInstrs : x.fmt = "A" /\ x.dest = 0 /\ FromNop(x)

\* a branch mnemonic with one signed literal in -128..127
IsRelativeBranch(line) ==
  /\ line.k = "instr"
  /\ line.m \in Range(BranchNames)
  /\ Len(line.ops) = 1
  /\ line.ops[1].t = "Immediate"
  /\ line.ops[1].signed
  /\ line.ops[1].value \in -128..127

\* the 16-bit word at instruction index i (from 1) of a section's data
WordAt(data, i) == data[2 * i - 1] * 256 + data[2 * i]

\* C3: a source of branches with signed literals in -128..127 assembles, and
\* each word has bit 11 clear and the two's-complement offset in its low byte
C3_RelativeBranch ==
  (src # <<>> /\ \A i \in DOMAIN src : IsRelativeBranch(src[i])) =>
    /\ asm \in {"parsing", "ok"}
    /\ asm = "ok" =>
         \A i \in DOMAIN src :
           LET w == WordAt(SectionData(LastObj, ".text"), i)
           IN  /\ Field(w, 11, 1) = 0
               /\ Field(w, 0, 255) = AsU8(src[i].ops[1].value)

ProducesItem(line) == line.k \in {"section", "byte", "word", "instr"}

\* the index of the last line that defines the name
DefLine(name) ==
  CHOOSE d \in DOMAIN src :
    /\ src[d].k \in {"label", "imm"} /\ src[d].name = name
    /\ \A e \in DOMAIN src :
         (src[e].k \in {"label", "imm"} /\ src[e].name = name) => e <= d

\* the bytes the back-end has placed in the section once it has emitted the
\* items of the lines before line d
BytesPlacedBefore(d, section) ==
  LET n == Cardinality({i \in 1..(d - 1) : ProducesItem(src[i])})
      st == Pass2(SubSeq(items, 1, n), parser.symbols)
  IN  IF section \in DOMAIN st.section_data THEN Len(st.section_data[section]) ELSE 0

\* C4: every label of the object has as offset the number of bytes the
\* back-end has placed in the label's section where the label is defined
C4_LabelOffsets ==
  asm = "ok" =>
    \A i \in DOMAIN LastObj.symbols :
      LET sym == LastObj.symbols[i]
      IN  (sym.section # None /\ sym.section # Some(".abs")) =>
            sym.value = BytesPlacedBefore(DefLine(sym.name), sym.section[1])

RECURSIVE FirstAppearance(_, _, _)
\* the sections in the order in which the items first use them
FirstAppearance(its, current, seen) ==
  IF its = <<>> THEN seen
  ELSE LET now == IF Head(its).k = "SectionChange" THEN Head(its).name ELSE current
       IN  FirstAppearance(Tail(its), now,
                           IF now \in Range(seen) THEN seen ELSE Append(seen, now))

\* C7: the section records of the object are in the order in which the
\* sections first appeared in the source
C7_SectionOrder ==
  asm = "ok" =>
    [i \in DOMAIN LastObj.sections |-> LastObj.sections[i].name]
      = FirstAppearance(items, ".text", <<>>)

\* C8: assembling the same source twice yields the same object file
C8_Deterministic ==
  rerun # <<>> => rerun[1].ok /\ rerun[1].v = LastObj

S3Source ==
  <<LabelLine("start"), InstrLine("ldi", <<R(1), U(1)>>),
    InstrLine("beq", <<LabelRef("start")>>)>>

S3Object(branch_high) ==
  [sections |-> <<[name |-> ".text", start |-> 0, data |-> <<17, 1, branch_high, 0>>]>>,
   symbols |-> <<[name |-> "start", value |-> 0, section |-> Some(".text"),
                  binding |-> "Local"]>>,
   relocations |-> <<>>,
   version |-> 1]

\* C10 as stated: scenario S3 yields the words 0x1101 and 0x8100, the one
\* Local symbol start (value 0, section .text) and no relocation
C10_Original == (asm = "ok" /\ src = S3Source) => LastObj = S3Object(129)

\* C10 as amended: scenario S3 yields the words 0x1101 and 0x8900 (a branch
\* to a label is absolute, bit 11 set), the one Local symbol start (value 0,
\* section .text) and no relocation
C10_LocalBranch == (asm = "ok" /\ src = S3Source) => LastObj = S3Object(137)

C10_Witness == asm = "ok" /\ src = S3Source

S4SourceA ==
  <<GlobalLine("inc_r1"), LabelLine("inc_r1"), InstrLine("addi", <<R(1), U(1)>>)>>

S4SourceB == <<ImportLine("inc_r1"), InstrLine("beq", <<LabelRef("inc_r1")>>)>>

S4Linked(branch_high) ==
  /\ lnk.status = "ok"
  /\ lnk.merged_sections = (".text" :> <<33, 1, branch_high, 0>>)
  /\ objs[2].relocations =
       <<[offset |-> 0, symbol |-> "inc_r1", addend |-> 0, section |-> ".text"]>>
  /\ lnk.label_map["inc_r1"] = 0

\* C9 as stated: scenario S4 links to .text = [0x21, 0x01, 0x81, 0x00], the
\* relocation of b.o patched with 0x00, the address of inc_r1
C9_Original ==
  (srcs = <<S4SourceA, S4SourceB>> /\ lnk.status # "idle") => S4Linked(129)

\* C9 as amended: scenario S4 links to .text = [0x21, 0x01, 0x89, 0x00] (the
\* branch to a label is absolute, bit 11 set), the relocation of b.o patched
\* with 0x00, the address of inc_r1
C9_CrossFileLink ==
  (srcs = <<S4SourceA, S4SourceB>> /\ lnk.status # "idle") => S4Linked(137)

C9_Witness == srcs = <<S4SourceA, S4SourceB>> /\ lnk.status = "ok"

TextSize(obj) == Len(SectionData(obj, ".text"))

LocalTextLabels(obj) ==
  {obj.symbols[i].name :
     i \in {j \in DOMAIN obj.symbols :
              obj.symbols[j].binding = "Local" /\ obj.symbols[j].section = Some(".text")}}

\* C5: linking a.o then b.o, the merged .text is as long as both .text
\* sections together, the Local .text labels of a.o have table addresses in
\* [0, a.text.size) and those of b.o in [a.text.size, a.text.size + b.text.size)
C5_LinkerMonotonicity ==
  (Len(objs) = 2 /\ lnk.status = "ok") =>
    LET a == TextSize(objs[1])
        b == TextSize(objs[2])
    IN  /\ Len(SectionData([sections |->
               [i \in DOMAIN BTreeKeys(lnk.merged_sections) |->
                  [name |-> BTreeKeys(lnk.merged_sections)[i],
                   data |-> lnk.merged_sections[BTreeKeys(lnk.merged_sections)[i]]]]],
               ".text")) = a + b
        /\ \A n \in LocalTextLabels(objs[1]) : lnk.label_map[n] \in 0..(a - 1)
        /\ \A n \in LocalTextLabels(objs[2]) : lnk.label_map[n] \in a..(a + b - 1)

DefinedNames(obj, bindings) ==
  {obj.symbols[i].name :
     i \in {j \in DOMAIN obj.symbols :
              obj.symbols[j].section # None /\ obj.symbols[j].binding \in bindings}}

\* C6: when a Global defined symbol of the second object has a name the
\* first object already put in the table, link fails with DuplicateSymbol
C6_DuplicateSymbol ==
  (Len(objs) = 2 /\ lnk.status # "idle"
     /\ DefinedNames(objs[2], {"Global"}) \cap DefinedNames(objs[1], {"Global", "Local"}) # {})
    => lnk.status = "DuplicateSymbol"

\* C11: no name is at once a key of the symbol table's symbols map and a
\* member of its imports set
C11_SymbolsImportsDisjoint == DOMAIN parser.symbols \cap parser.imports = {}

\* C14: every relocation of an assembled object has offset + 1 inside its
\* named section, and the byte at offset + 1 of that section is 0x00
C14_RelocationValidity ==
  asm = "ok" =>
    \A i \in DOMAIN LastObj.relocations :
      LET rel == LastObj.relocations[i]
          data == SectionData(LastObj, rel.section)
      IN  /\ \E j \in DOMAIN LastObj.sections : LastObj.sections[j].name = rel.section
          /\ rel.offset + 1 < Len(data)
          /\ data[rel.offset + 2] = 0

\* an object with two relocations, one of them after other bytes of a section
C14_Witness ==
  /\ asm = "ok"
  /\ Len(LastObj.relocations) = 2
  /\ \E i \in DOMAIN LastObj.relocations : LastObj.relocations[i].offset > 2

OutOfRange(x) ==
  x.fmt \in {"I", "BI", "P"} /\ OperandOf(x).t = "Immediate" /\ OperandOf(x).v > 255

Relocs == Tagged(objs, "relocations", 0)

\* the position, from 1, of the low byte of the word relocation t refers to
LowBytePos(t) == BaseOf(lnk, t.file_idx, t.rec.section) + t.rec.offset + 2

\* (address + addend) mod 2^16 for relocation t
FinalValueOf(t) == (lnk.label_map[t.rec.symbol] + t.rec.addend) % 65536

\* link has built the whole symbol table
TableBuilt == lnk.status \notin {"idle", "DuplicateSymbol"}

\* the relocations before the i-th all resolve to a value of at most 0xFF
PassedBefore(i) ==
  \A j \in 1..(i - 1) :
    /\ Relocs[j].rec.symbol \in DOMAIN lnk.label_map
    /\ FinalValueOf(Relocs[j]) <= 255

\* C12: a relocation link processes whose final_value = (address + addend)
\* mod 2^16 exceeds 0xFF makes link fail with Encoding, and after a successful
\* link the byte of every relocation is its final_value, at most 0xFF
C12_PatchedValueRange ==
  /\ TableBuilt =>
       \A i \in DOMAIN Relocs :
         (/\ PassedBefore(i)
          /\ Relocs[i].rec.symbol \in DOMAIN lnk.label_map
          /\ FinalValueOf(Relocs[i]) > 255)
           => lnk.status = "Encoding"
  /\ lnk.status = "ok" =>
       \A i \in DOMAIN Relocs :
         /\ Relocs[i].rec.symbol \in DOMAIN lnk.label_map
         /\ FinalValueOf(Relocs[i]) <= 255
         /\ lnk.merged_sections[Relocs[i].rec.section][LowBytePos(Relocs[i])]
              = FinalValueOf(Relocs[i])

\* a link of two objects has patched a byte with 0xFF
C12_Witness ==
  /\ lnk.status = "ok"
  /\ Len(objs) = 2
  /\ \E i \in DOMAIN Relocs :
       /\ FinalValueOf(Relocs[i]) = 255
       /\ lnk.merged_sections[Relocs[i].rec.section][LowBytePos(Relocs[i])] = 255

RECURSIVE ConcatInputs(_, _)
\* the data the objects from the i-th on give to the named section, in order
ConcatInputs(name, i) ==
  IF i > Len(objs) THEN <<>>
  ELSE SectionData(objs[i], name) \o ConcatInputs(name, i + 1)

InputSections ==
  UNION {{objs[i].sections[j].name : j \in DOMAIN objs[i].sections} : i \in DOMAIN objs}

\* C13: after a successful link every merged section is the concatenation of
\* the inputs' data in input order, except for the bytes at patch_offset + 1
\* of the relocations; the high bytes at patch_offset are unchanged
C13_PatchFrame ==
  lnk.status = "ok" =>
    /\ DOMAIN lnk.merged_sections = InputSections
    /\ \A name \in InputSections :
         /\ Len(lnk.merged_sections[name]) = Len(ConcatInputs(name, 1))
         /\ \A pos \in DOMAIN lnk.merged_sections[name] :
              (\A i \in DOMAIN Relocs :
                 ~(Relocs[i].rec.section = name /\ LowBytePos(Relocs[i]) = pos))
                => lnk.merged_sections[name][pos] = ConcatInputs(name, 1)[pos]

\* a relocation of the second object was patched with 0xFF in a section that
\* starts with bytes of the first object
C13_Witness ==
  /\ lnk.status = "ok"
  /\ \E i \in DOMAIN Relocs :
       /\ Relocs[i].file_idx = 1
       /\ BaseOf(lnk, 1, Relocs[i].rec.section) > 0
       /\ lnk.merged_sections[Relocs[i].rec.section][LowBytePos(Relocs[i])] = 255

DefinedAnywhere ==
  UNION {DefinedNames(objs[i], {"Global", "Local"}) : i \in DOMAIN objs}

UndefinedRelocs == {i \in DOMAIN Relocs : Relocs[i].rec.symbol \notin DefinedAnywhere}

FirstUndefined == CHOOSE i \in UndefinedRelocs : \A j \in UndefinedRelocs : i <= j

\* C16 as stated: when a relocation names a symbol no input object defines,
\* link fails with UnresolvedLabel and the message names that symbol
C16_Original ==
  (lnk.status # "idle" /\ UndefinedRelocs # {}) =>
    /\ lnk.status = "UnresolvedLabel"
    /\ lnk.named \in {<<Relocs[i].rec.symbol>> : i \in UndefinedRelocs}

\* C16 as amended: when a relocation names a symbol no input object defines,
\* link fails; it fails with UnresolvedLabel naming the first such symbol
\* unless the symbol table build failed with DuplicateSymbol or an earlier
\* relocation failed with Encoding
C16_UnresolvedLabel ==
  (lnk.status # "idle" /\ UndefinedRelocs # {}) =>
    /\ lnk.status \in {"UnresolvedLabel", "DuplicateSymbol", "Encoding"}
    /\ lnk.status = "UnresolvedLabel" => lnk.named = <<Relocs[FirstUndefined].rec.symbol>>
    /\ (TableBuilt /\ PassedBefore(FirstUndefined)) => lnk.status = "UnresolvedLabel"

\* link has failed on an undefined symbol that comes after a resolved one
C16_Witness ==
  /\ lnk.status = "UnresolvedLabel"
  /\ lnk.named = <<"ext">>
  /\ UndefinedRelocs # {}
  /\ FirstUndefined > 1

ExportsUndefined == parser.exports \ DOMAIN parser.symbols

\* the states in which pass 1 has read the whole source without an error
ParsingEnded == asm \in {"ok", "EncodingError", "ExportedSymbolNotDefined"}

\* C15 as stated: assemble succeeds only if every exported name is defined at
\* the end of parsing, and fails with the exported-symbol-not-defined
\* EncodingError if one is not
C15_Original ==
  /\ asm = "ok" => ExportsUndefined = {}
  /\ (ParsingEnded /\ ExportsUndefined # {}) => asm = "ExportedSymbolNotDefined"

\* C15 as amended: assemble succeeds only if every exported name is defined at
\* the end of parsing; if one is not, assemble fails, with the
\* exported-symbol-not-defined EncodingError unless pass 2 has already failed
\* with the EncodingError of an instruction
C15_ExportValidation ==
  /\ asm = "ok" => ExportsUndefined = {}
  /\ asm = "ExportedSymbolNotDefined" => ExportsUndefined # {}
  /\ (ParsingEnded /\ ExportsUndefined # {}) =>
       /\ asm \in {"EncodingError", "ExportedSymbolNotDefined"}
       /\ asm = "EncodingError" <=> Pass2(items, parser.symbols).err # "none"

\* assemble has rejected a source with bytes and an export without definition
C15_Witness ==
  /\ asm = "ExportedSymbolNotDefined"
  /\ items # <<>>
  /\ "start" \in ExportsUndefined

RECURSIVE ExpectedRelocs(_, _, _, _)
\* the relocations the items call for: one per I, BI or P instruction whose
\* label is not in the final symbol table, at the bytes placed so far
ExpectedRelocs(its, current, placed, acc) ==
  IF its = <<>> THEN acc
  ELSE LET it == Head(its)
       IN  CASE it.k = "SectionChange" -> ExpectedRelocs(Tail(its), it.name, placed, acc)
             [] it.k = "Data" ->
                  ExpectedRelocs(Tail(its), current,
                                 [placed EXCEPT ![current] = @ + Len(it.bytes)], acc)
             [] it.k = "Instruction" ->
                  ExpectedRelocs(Tail(its), current, [placed EXCEPT ![current] = @ + 2],
                    IF HasLabelOperand(it.instr)
                         /\ OperandOf(it.instr).name \notin DOMAIN parser.symbols
                    THEN Append(acc, [offset |-> placed[current], section |-> current,
                                      symbol |-> OperandOf(it.instr).name, addend |-> 0])
                    ELSE acc)

\* C17: the relocations of the object are, in emission order, one for every
\* I, BI or P instruction whose label is absent from the final symbol table,
\* with the instruction's byte offset in its section, that section, addend 0
C17_RelocationList ==
  asm = "ok" =>
    LastObj.relocations
      = ExpectedRelocs(items, ".text", [n \in Range(NameOrder) |-> 0], <<>>)

\* an object with two relocations and a reference that was resolved locally
C17_Witness ==
  /\ asm = "ok"
  /\ Len(LastObj.relocations) = 2
  /\ \E x \in ParsedInstrs : HasLabelOperand(x) /\ OperandOf(x).name \in DOMAIN parser.symbols

\* the record the symbol list must hold for a symbol-table entry
ExpectedDefined(name) ==
  [name |-> name,
   value |-> IF parser.symbols[name].k = "Label" THEN parser.symbols[name].offset
             ELSE parser.symbols[name].value,
   section |-> IF parser.symbols[name].k = "Label"
               THEN <<parser.symbols[name].section>> ELSE <<".abs">>,
   binding |-> IF name \in parser.exports THEN "Global" ELSE "Local"]

\* C18: the symbol list holds exactly one record per symbol-table entry and
\* one undefined Global record per imported name without a local definition,
\* and no name occurs in two records
C18_SymbolList ==
  asm = "ok" =>
    /\ {LastObj.symbols[i] : i \in DOMAIN LastObj.symbols}
         = {ExpectedDefined(n) : n \in DOMAIN parser.symbols}
             \cup {[name |-> n, value |-> 0, section |-> <<>>, binding |-> "Global"] :
                     n \in parser.imports \ DOMAIN parser.symbols}
    /\ \A i, j \in DOMAIN LastObj.symbols :
         LastObj.symbols[i].name = LastObj.symbols[j].name => i = j

\* an object whose source imports, exports and defines one name and defines
\* another one
C18_Witness ==
  /\ asm = "ok"
  /\ "inc_r1" \in parser.imports \cap parser.exports \cap DOMAIN parser.symbols
  /\ Len(LastObj.symbols) = 1

\* C20: when parsing, encoding or export validation fails, assemble has the
\* first error as its result and no object file has been written; an object
\* is written once, and only on success
C20_NoObjectOnError ==
  LET p1 == RunParser([parser |-> ParserNew, items |-> <<>>, err |-> "none"], src, 1)
  IN  /\ asm \notin {"parsing", "ok"} => objs = <<>>
      /\ asm = "ok" => Len(objs) = 1
      /\ asm \notin {"parsing", "ok", "EncodingError", "ExportedSymbolNotDefined"} =>
           /\ p1.err = asm
           /\ RunParser([parser |-> ParserNew, items |-> <<>>, err |-> "none"],
                        SubSeq(src, 1, Len(src) - 1), 1).err = "none"
      /\ asm \in {"EncodingError", "ExportedSymbolNotDefined"} => p1.err = "none"

\* `addi r0, 1` after an accepted line has failed with WriteToR0
C20_Witness ==
  /\ asm = "WriteToR0"
  /\ Len(src) = 2
  /\ src[2] = InstrLine("addi", <<R(0), U(1)>>)
  /\ objs = <<>>

\* the data of a merged section, empty when there is no such section
MergedOrEmpty(name) ==
  IF name \in DOMAIN lnk.merged_sections THEN lnk.merged_sections[name] ELSE <<>>

Symbols == Tagged(objs, "symbols", 0)

\* the addresses of the Global definitions of the name
GlobalAddresses(name) ==
  {IF Symbols[i].rec.section = Some(".abs") THEN AsU16(Symbols[i].rec.value)
   ELSE AsU16(BaseOf(lnk, Symbols[i].file_idx, Symbols[i].rec.section[1])
                + Symbols[i].rec.value) :
     i \in {j \in DOMAIN Symbols :
              /\ Symbols[j].rec.name = name
              /\ Symbols[j].rec.section # None
              /\ Symbols[j].rec.binding = "Global"}}

\* C27: after a successful link, the address used for a relocation whose
\* symbol its own object does not define is the address of a Global
\* definition of that name, never that of another object's Local symbol
C27_GlobalResolution ==
  lnk.status = "ok" =>
    \A i \in DOMAIN Relocs :
      Relocs[i].rec.symbol
          \notin DefinedNames(objs[Relocs[i].file_idx + 1], {"Global", "Local"})
        => lnk.label_map[Relocs[i].rec.symbol] \in GlobalAddresses(Relocs[i].rec.symbol)

\* the section the back-end is in when it reaches line d of the source
SectionAt(source, d) ==
  LET before == {e \in 1..(d - 1) : source[e].k = "section"}
  IN  IF before = {} THEN ".text"
      ELSE SectionNameOf(source[CHOOSE e \in before : \A g \in before : g <= e])

\* pass 1 on the lines of a source
Pass1(lines) == RunParser([parser |-> ParserNew, items |-> <<>>, err |-> "none"], lines, 1)

\* the bytes the back-end has placed in the section of line d of the source
\* when it reaches the items of that line
PlacedBefore(source, d) ==
  LET st == Pass2(Pass1(SubSeq(source, 1, d - 1)).items, Pass1(source).parser.symbols)
  IN  IF SectionAt(source, d) \in DOMAIN st.section_data
      THEN Len(st.section_data[SectionAt(source, d)]) ELSE 0

\* the record of the named symbol in the object
SymbolOf(obj, name) ==
  obj.symbols[CHOOSE i \in DOMAIN obj.symbols : obj.symbols[i].name = name]

\* the instruction lines of the source whose operand names a label that the
\* same source defines
LocalLabelUses(source) ==
  {d \in DOMAIN source :
     /\ source[d].k = "instr"
     /\ source[d].m \in Range(ImmNames) \cup Range(BranchNames) \cup Range(PeekPokeNames)
     /\ \E j \in DOMAIN source[d].ops :
          /\ source[d].ops[j].t = "LabelRef"
          /\ \E e \in DOMAIN source :
               source[e].k = "label" /\ source[e].name = source[d].ops[j].name}

\* the label an instruction line names
LabelUsed(line) ==
  line.ops[CHOOSE j \in DOMAIN line.ops : line.ops[j].t = "LabelRef"].name

\* C28: after a successful link, every I, BI or P instruction whose operand
\* names a label of its own source holds in its low byte the low byte of the
\* base of its file's contribution to the label's section plus the label's
\* offset
C28_LocalLabelAddress ==
  lnk.status = "ok" =>
    \A f \in DOMAIN srcs : \A d \in LocalLabelUses(srcs[f]) :
      LET sym == SymbolOf(objs[f], LabelUsed(srcs[f][d]))
          sec == SectionAt(srcs[f], d)
          pos == BaseOf(lnk, f - 1, sec) + PlacedBefore(srcs[f], d)
      IN  lnk.merged_sections[sec][pos + 2]
            = AsU8(BaseOf(lnk, f - 1, sym.section[1]) + sym.value)

\* the position in the image, from 0, where the merged section starts
ImageStart(name) ==
  CASE name = ".text" -> 0
    [] name = ".bss" -> Len(MergedOrEmpty(".text"))
    [] name = ".data" -> Len(MergedOrEmpty(".text")) + Len(MergedOrEmpty(".bss"))
    [] name = ".rodata" -> Len(MergedOrEmpty(".text")) + Len(MergedOrEmpty(".bss"))
                             + Len(MergedOrEmpty(".data"))

\* the last line of the source that defines the name
LastDef(source, name) ==
  CHOOSE d \in DOMAIN source :
    /\ source[d].k \in {"label", "imm"} /\ source[d].name = name
    /\ \A e \in DOMAIN source :
         (source[e].k \in {"label", "imm"} /\ source[e].name = name) => e <= d

\* C29: after a successful link, the address link registers for a defined
\* symbol outside .abs (the base of its file's contribution plus its value)
\* is the position in the image of the location the symbol labels: the start
\* of its section in the image, plus the base of its file's contribution,
\* plus the bytes placed in the section before the label
C29_TableAddressIsImagePosition ==
  lnk.status = "ok" =>
    \A f \in DOMAIN objs : \A i \in DOMAIN objs[f].symbols :
      LET sym == objs[f].symbols[i]
          d == LastDef(srcs[f], sym.name)
          sec == SectionAt(srcs[f], d)
      IN  (sym.section # None /\ sym.section # Some(".abs")) =>
            AsU16(BaseOf(lnk, f - 1, sym.section[1]) + sym.value)
              = ImageStart(sec) + BaseOf(lnk, f - 1, sec) + PlacedBefore(srcs[f], d)

\* the type field is at most 13 and the op subfield is one the format defines
DefinedWord(w) ==
  /\ Field(w, 12, 15) <= 13
  /\ Field(w, 12, 15) = 10 => Field(w, 8, 15) \in 0..5
  /\ Field(w, 12, 15) = 13 => Field(w, 8, 15) \in 0..6

\* C30: for every 16-bit word whose type field is at most 13 and whose op
\* subfield is defined, decode succeeds and encode of the decoded instruction
\* returns the word
C30_DecodeEncode ==
  (cword # <<>> /\ DefinedWord(cword[1].v)) =>
    /\ cdec # <<>> => cdec[1].ok
    /\ cre # <<>> => cre[1] = Ok(cword[1].v)

\* the X-type word 0xD234 was decoded to an instruction with a register pair
\* and encoded again
C30_Witness ==
  /\ cre # <<>>
  /\ cword[1].v = 53812
  /\ cdec[1].v.fmt = "X"
  /\ cdec[1].v.operand.t = "Registers"

\* the bytes a record line spells after its colon
LineBytes(line) ==
  [i \in 1..((Len(line) - 1) \div 2) |-> from_str_radix(SubSeq(line, 2 * i, 2 * i + 1))]

\* C24: to_ihex(data, base) writes ceil(len / 16) data records of type 00,
\* the k-th (from 0) with at most 16 data bytes and the address
\* (base + 16 * k) mod 2^16, then the one record :00000001FF as the last line,
\* and the bytes of every record, checksum included, add up to 0 mod 256
C24_Records ==
  hexio.text # <<>> =>
    LET text == hexio.text[1]
        n == (Len(hexio.data) + 15) \div 16
    IN  /\ Len(text) = n + 1
        /\ text[n + 1] = <<":", "0", "0", "0", "0", "0", "0", "0", "1", "F", "F">>
        /\ \A k \in 1..n :
             LET bytes == LineBytes(text[k])
             IN  /\ text[k][1] = ":"
                 /\ Len(text[k]) = 11 + 2 * bytes[1]
                 /\ bytes[1] <= 16
                 /\ bytes[2] * 256 + bytes[3] = (hexio.base + 16 * (k - 1)) % 65536
                 /\ bytes[4] = 0
        /\ \A k \in 1..(n + 1) : SumBytes(LineBytes(text[k])) % 256 = 0

\* to_ihex wrote three records and the EOF record for 33 bytes at a base
\* address that makes the record addresses wrap around
C24_Witness ==
  /\ hexio.text # <<>>
  /\ Len(hexio.data) = 33
  /\ hexio.base = 65520
  /\ Len(hexio.text[1]) = 4
  /\ LineBytes(hexio.text[1][2])[3] = 0

\* C23: for data of at most 65536 bytes written at base 0, from_ihex on the
\* text of to_ihex succeeds and returns the data
C23_HexRoundTrip ==
  (hexio.back # <<>> /\ hexio.base = 0 /\ Len(hexio.data) <= 65536) =>
    hexio.back[1] = Ok(hexio.data)

\* 65536 bytes, the whole address space, were written and read back
C23_Witness ==
  /\ hexio.back # <<>>
  /\ hexio.base = 0
  /\ Len(hexio.data) = 65536
  /\ hexio.back[1].ok

\* C22: from_file on the file to_file wrote returns an object equal to the
\* original: the same version and the same section, symbol and relocation
\* records, field by field and in the same order
C22_ObjectRoundTrip ==
  ofile.back # <<>> =>
    /\ ofile.back[1].ok
    /\ ofile.back[1].v.version = ofile.obj.version
    /\ ofile.back[1].v.sections = ofile.obj.sections
    /\ ofile.back[1].v.symbols = ofile.obj.symbols
    /\ ofile.back[1].v.relocations = ofile.obj.relocations

\* an object with two sections, a Global symbol without a section after a
\* Local one with a section, and a relocation with addend -2^31 was written
\* and read back
C22_Witness ==
  /\ ofile.back # <<>>
  /\ ofile.back[1].ok
  /\ Len(ofile.obj.sections) = 2
  /\ Len(ofile.obj.symbols) = 2
  /\ ofile.obj.symbols[1].section # None /\ ofile.obj.symbols[1].binding = "Local"
  /\ ofile.obj.symbols[2].section = None /\ ofile.obj.symbols[2].binding = "Global"
  /\ \E i \in DOMAIN ofile.obj.relocations : ofile.obj.relocations[i].addend < -2147483647
  /\ ofile.obj.version = 2147483647

\* the positions of out that hold the token
TokensAt(t) == {i \in DOMAIN lex.out : lex.out[i] = LexToken(t)}

\* C21: next() never returns two NewLine tokens in a row; it returns EoF at
\* most once, every call after EoF returns None and None is returned only
\* after EoF, so that a source without errors yields exactly one EoF; every
\* call before EoF consumes at least one character
C21_NewLinesAndEoF ==
  /\ \A i \in TokensAt("NewLine") : i + 1 \notin TokensAt("NewLine")
  /\ Cardinality(TokensAt("EoF")) <= 1
  /\ \A i \in DOMAIN lex.out :
       lex.out[i] = LexNone <=> \E j \in TokensAt("EoF") : j < i
  /\ TokensAt("EoF") = {} => Len(lex.out) <= lex.lexer.pos
  /\ lex.lexer.pos <= Len(lex.lexer.src)

\* a source with a line of blanks and a comment line after its first line
\* feed was read to its end: one NewLine, then EoF, then None
C21_Witness ==
  /\ lex.lexer.src = <<"\n", " ", "\n", ";", "c">>
  /\ lex.out = <<LexToken("NewLine"), LexToken("EoF"), LexNone, LexNone>>

\* C26: after every tick, pc equals the 16-bit value of the pair R14:R15
C26_PcInSync == core.pc = core.regs[15] * 256 + core.regs[16]
====
